---------------------------- MODULE Spec2Model ----------------------------
(***************************************************************************)
(* State-machine model of the vinverse backend request handlers:           *)
(*   gamerlink/views.py  follow_user, PostViewSet, TeamViewSet             *)
(*   chat/views.py       MessageViewSet                                    *)
(* The database runs in autocommit mode (settings.py sets no               *)
(* ATOMIC_REQUESTS), so every ORM statement of a handler is one atomic     *)
(* step and the steps of concurrent handlers interleave.                   *)
(***************************************************************************)
EXTENDS Integers, Sequences, FiniteSets, Bags, TLC

VARIABLES
    friendships,   \* Friendship table: bag of [follower, following, is_accepted] rows
    notifs,        \* Notification table: bag of [user, ntype, related] rows
    posts,         \* Post table: sequence of authors; index = id = creation order
    likes,         \* PostLike table: bag of <<post id, user>> rows
    comments,      \* PostComment table: sequence of [post, author, content]
    teamMembers,   \* Team.members of the one team
    teamMax,       \* Team.max_members of the one team
    req,           \* request handlers in flight: slot -> handler frame
    rooms,         \* chat Room table: rows with a unique name
    messages,      \* chat Message table: rows [id, room, author, created_at]
    listing,       \* the last response of the message listing
    lftPosts,      \* LFTPost table: rows in the order a query returns them
    profiles,      \* CustomUser columns rank and gamer_tag: user -> [rank, gamer_tag]
    insights,      \* MatchInsight table: rows [id, user, tournament, status, ai_summary]
    users,         \* CustomUser table: rows [username, vin_id]
    openaiKey      \* tasks.py: OPENAI_AVAILABLE and OPENAI_API_KEY

vars == <<friendships, notifs, posts, likes, comments, teamMembers, teamMax,
          req, rooms, messages, listing, lftPosts, profiles, insights, users,
          openaiKey>>

socialVars == <<friendships, notifs, posts, likes, comments>>
teamVars   == <<teamMembers, teamMax>>
chatVars   == <<rooms, messages, listing>>
lftVars    == <<lftPosts, profiles>>
restVars   == <<lftVars, insights, users, openaiKey>>

---------------------------------------------------------------------------
\* Bounds of the model.
NumHandlers == 2      \* request handlers that may run concurrently
MaxTeamCap  == 3      \* largest max_members a team is created with
MaxNotifs   == 2      \* like notifications per (author, liker) the model lets accumulate
MaxPosts    == 1      \* posts the model lets accumulate
MaxFeedPosts == 2     \* rows of the small post tables a feed is read from
MaxTime     == 2      \* creation times of the rows of the small post tables
MaxComments == 2      \* comments the model lets accumulate

Users    == {"A", "B", "C"}
Users2   == {"A", "B"}
NoUser   == "nobody"          \* a user id that matches no CustomUser row
Handlers == 1..NumHandlers    \* slots whose requests run concurrently
Single   == {0}               \* the slot used when requests run one at a time
Duo      == {1, 2}            \* two slots whose requests interleave
Slots    == Single \cup Duo \cup Handlers
PostIds  == 1..(MaxPosts + 1) \* the id past the cap never names a stored post
\* request.data of a comment POST: no 'content' key, or one with a string
\* (a string is a sequence of characters).
Contents == {<<>>, <<" ", " ">>, <<"g", "g">>, <<" ", "g", " ">>}
Payloads == {{}} \cup {{c} : c \in Contents}

\* The stores as the handler of slot 0 finds them when it begins (kept in its
\* frame so that the handler's effect can be compared with the state it
\* started from).
Snapshot ==
    [fr |-> friendships, nt |-> notifs, ps |-> posts, lk |-> likes,
     cm |-> comments, tm |-> teamMembers]

NoStore ==
    [fr |-> EmptyBag, nt |-> EmptyBag, ps |-> <<>>, lk |-> EmptyBag,
     cm |-> <<>>, tm |-> {}]

\* A handler frame: the handler's position and its local variables.
Idle ==
    [pc |-> "idle", op |-> "none", me |-> NoUser, arg |-> NoUser, post |-> 0,
     status |-> 0, error |-> "", created |-> FALSE, conflict |-> FALSE,
     nfail |-> FALSE, data |-> {}, mode |-> "", out |-> <<>>, flag |-> FALSE,
     ref |-> "none", snap |-> {}, todo |-> {}, cnt |-> 0, game |-> <<>>,
     pre |-> NoStore]

Begun(h, op, me) ==
    [Idle EXCEPT !.op = op, !.me = me,
                 !.pre = IF h \in Single THEN Snapshot ELSE NoStore]

\* The handler returns its Response: the frame keeps status and error until
\* the slot is reused.
Respond(f, status, error) ==
    [f EXCEPT !.pc = "done", !.status = status, !.error = error]

\* Table helpers: rows are kept in bags, so that a duplicate row is a state
\* the model can be in.
Insert(table, row)    == table (+) SetToBag({row})
DeleteOne(table, row) == table (-) SetToBag({row})
DeleteAll(table, row) == [r \in (DOMAIN table) \ {row} |-> table[r]]
---------------------------------------------------------------------------
\* TeamViewSet.join / TeamViewSet.leave

\* A capacity check that lets one member too many in.
TeamIsOverFull(cnt, max) == cnt > max

\* team.members.count() >= team.max_members
TeamIsFull(cnt, max) == cnt >= max

\* join, first statement: the member count is read and compared.
JoinBegin(h, u) ==
    /\ req[h].pc = "idle"
    /\ LET f == [Begun(h, "join", u) EXCEPT !.cnt = Cardinality(teamMembers)] IN
         req' = [req EXCEPT ![h] =
                   IF TeamIsFull(f.cnt, teamMax)
                   THEN Respond(f, 400, "Team is full")
                   ELSE [f EXCEPT !.pc = "j_add"]]
    /\ UNCHANGED <<socialVars, teamVars, chatVars, restVars>>

\* An add that rejects a user who is a member already.
JoinAddStrict(h) ==
    /\ req[h].pc = "j_add"
    /\ IF req[h].me \in teamMembers
       THEN /\ req' = [req EXCEPT ![h] = Respond(@, 400, "Already a member")]
            /\ UNCHANGED teamMembers
       ELSE /\ teamMembers' = teamMembers \cup {req[h].me}
            /\ req' = [req EXCEPT ![h] = Respond(@, 200, "")]
    /\ UNCHANGED <<socialVars, teamMax, chatVars, restVars>>

\* join, second statement: team.members.add(request.user), a no-op on a member
JoinAdd(h) ==
    /\ req[h].pc = "j_add"
    /\ teamMembers' = teamMembers \cup {req[h].me}
    /\ req' = [req EXCEPT ![h] = Respond(@, 200, "")]
    /\ UNCHANGED <<socialVars, teamMax, chatVars, restVars>>

\* A leave that answers without removing the user.
LeaveKeeps(h, u) ==
    /\ req[h].pc = "idle"
    /\ req' = [req EXCEPT ![h] = Respond(Begun(h, "leave", u), 200, "")]
    /\ UNCHANGED <<socialVars, teamVars, chatVars, restVars>>

\* leave: team.members.remove(request.user)
Leave(h, u) ==
    /\ req[h].pc = "idle"
    /\ teamMembers' = teamMembers \ {u}
    /\ req' = [req EXCEPT ![h] = Respond(Begun(h, "leave", u), 200, "")]
    /\ UNCHANGED <<socialVars, teamMax, chatVars, restVars>>

\* The response has been sent; the slot serves the next request.
Return(h) ==
    /\ req[h].pc = "done"
    /\ req' = [req EXCEPT ![h] = Idle]
    /\ UNCHANGED <<socialVars, teamVars, chatVars, restVars>>

---------------------------------------------------------------------------
\* follow_user (POST: follow, DELETE: unfollow)

Edge(a, b, acc) == [follower |-> a, following |-> b, is_accepted |-> acc]
Notif(u, t, r)  == [user |-> u, ntype |-> t, related |-> r]

\* Friendship.objects.filter(follower=a, following=b).count()
EdgeRows(fr, a, b) == CopiesIn(Edge(a, b, TRUE), fr) + CopiesIn(Edge(a, b, FALSE), fr)
EdgeAccepted(fr, a, b) == CopiesIn(Edge(a, b, TRUE), fr) > 0

\* The (follower, following) uniqueness of the Friendship table and the
\* (post, user) uniqueness of the PostLike table, which the store enforces on
\* every insert.  The Notification table has no such constraint: the handlers
\* insert several rows with the same (user, type, related_user).
FriendshipUniquePair == TRUE
PostLikeUniquePair   == TRUE

\* The unfollow DELETE removes the row a concurrent handler still holds by its
\* primary key: that handler's reference no longer names a stored row.
Invalidate(rq, g, a, b) ==
    [h \in DOMAIN rq |->
        IF h # g /\ rq[h].me = a /\ rq[h].arg = b /\ rq[h].ref = "live"
        THEN [rq[h] EXCEPT !.ref = "stale"] ELSE rq[h]]

\* Line 34: request.user.id == target_user.id
SelfTargetNever(me, target) == FALSE
SelfTarget(me, target) == me = target

\* A found edge treated like a created one (the early return of line 55 missing).
FollowFoundNotifies(f, acc) == [f EXCEPT !.ref = "live", !.pc = "f_nget"]

\* Lines 48-58: the edge was found, not created.
FollowFound(f, acc) ==
    IF acc THEN Respond([f EXCEPT !.ref = "live"], 200, "Already following")
    ELSE [f EXCEPT !.ref = "live", !.pc = "f_accept"]

\* Lines 26-38, shared by POST and DELETE, and the SELECT of the method's
\* get_or_create (POST) or get (DELETE).
FollowBegin(h, me, target) ==
    /\ req[h].pc = "idle"
    /\ LET f == [Begun(h, "follow", me) EXCEPT !.arg = target]
           n == EdgeRows(friendships, me, target) IN
         req' = [req EXCEPT ![h] =
            IF target \notin Users THEN Respond(f, 404, "User not found")
            ELSE IF SelfTarget(me, target) THEN Respond(f, 400, "Cannot follow yourself")
            ELSE IF n = 0 THEN [f EXCEPT !.pc = "f_create"]
            ELSE IF n > 1 THEN Respond(f, 500, "MultipleObjectsReturned")
            ELSE FollowFound(f, EdgeAccepted(friendships, me, target))]
    /\ UNCHANGED <<friendships, notifs, posts, likes, comments, teamVars, chatVars, restVars>>

\* The INSERT of Friendship.objects.get_or_create; a uniqueness conflict makes
\* get_or_create return the row that is there, with created = False.
FollowCreate(h) ==
    /\ req[h].pc = "f_create"
    /\ LET f == req[h]
           n == EdgeRows(friendships, f.me, f.arg) IN
         IF FriendshipUniquePair /\ n > 0
         THEN /\ req' = [req EXCEPT ![h] =
                    FollowFound([f EXCEPT !.conflict = TRUE],
                                EdgeAccepted(friendships, f.me, f.arg))]
              /\ UNCHANGED friendships
         ELSE /\ friendships' = Insert(friendships, Edge(f.me, f.arg, TRUE))
              /\ req' = [req EXCEPT ![h] =
                    [f EXCEPT !.created = TRUE, !.ref = "live", !.pc = "f_nget"]]
    /\ UNCHANGED <<notifs, posts, likes, comments, teamVars, chatVars, restVars>>

\* Lines 50-52: friendship.is_accepted = True; friendship.save().  save() is an
\* UPDATE by primary key, and an INSERT when the UPDATE matched no row.
FollowAccept(h) ==
    /\ req[h].pc = "f_accept"
    /\ LET f == req[h]
           n == EdgeRows(friendships, f.me, f.arg) IN
         IF f.ref = "live"
         THEN /\ friendships' = Insert(DeleteAll(DeleteAll(friendships,
                                    Edge(f.me, f.arg, FALSE)), Edge(f.me, f.arg, TRUE)),
                                    Edge(f.me, f.arg, TRUE))
              /\ req' = [req EXCEPT ![h] = Respond(f, 200, "Already following")]
         ELSE IF FriendshipUniquePair /\ n > 0
         THEN /\ req' = [req EXCEPT ![h] = Respond(f, 500, "IntegrityError")]
              /\ UNCHANGED friendships
         ELSE /\ friendships' = Insert(friendships, Edge(f.me, f.arg, TRUE))
              /\ req' = [req EXCEPT ![h] =
                    Respond([f EXCEPT !.ref = "live"], 200, "Already following")]
    /\ UNCHANGED <<notifs, posts, likes, comments, teamVars, chatVars, restVars>>

\* Lines 74-78: the except branch logs the failed notification write (nfail)
\* and the follow still answers 201.
FollowWarn(f) == Respond([f EXCEPT !.nfail = TRUE], 201, "")

\* Notification.objects.create in the place of get_or_create.
FollowNotifAlwaysCreate(f, n, fault) ==
    IF fault THEN FollowWarn(f) ELSE [f EXCEPT !.pc = "f_ncreate"]

\* Outcome of the SELECT of Notification.objects.get_or_create (lines 64-73)
\* that found n rows.
FollowNotifLookup(f, n, fault) ==
    IF fault THEN FollowWarn(f)
    ELSE IF n = 0 THEN [f EXCEPT !.pc = "f_ncreate"]
    ELSE IF n > 1 THEN FollowWarn(f)     \* MultipleObjectsReturned, caught
    ELSE Respond(f, 201, "")

FollowNotifGet(h, fault) ==
    /\ req[h].pc = "f_nget"
    /\ req' = [req EXCEPT ![h] = FollowNotifLookup(req[h],
                  CopiesIn(Notif(req[h].arg, "follow", req[h].me), notifs), fault)]
    /\ UNCHANGED <<friendships, notifs, posts, likes, comments, teamVars, chatVars, restVars>>

\* The INSERT of Notification.objects.get_or_create.
FollowNotifCreate(h, fault) ==
    /\ req[h].pc = "f_ncreate"
    /\ LET f == req[h] IN
         IF fault
         THEN /\ req' = [req EXCEPT ![h] = FollowWarn(f)]
              /\ UNCHANGED notifs
         ELSE /\ notifs' = Insert(notifs, Notif(f.arg, "follow", f.me))
              /\ req' = [req EXCEPT ![h] = Respond(f, 201, "")]
    /\ UNCHANGED <<friendships, posts, likes, comments, teamVars, chatVars, restVars>>

\* Lines 26-38 and the SELECT of Friendship.objects.get (lines 88-91, 97-101).
UnfollowBegin(h, me, target) ==
    /\ req[h].pc = "idle"
    /\ LET f == [Begun(h, "unfollow", me) EXCEPT !.arg = target]
           n == EdgeRows(friendships, me, target) IN
         req' = [req EXCEPT ![h] =
            IF target \notin Users THEN Respond(f, 404, "User not found")
            ELSE IF SelfTarget(me, target) THEN Respond(f, 400, "Cannot follow yourself")
            ELSE IF n = 0 THEN Respond(f, 400, "Not following this user")
            ELSE IF n > 1 THEN Respond(f, 500, "MultipleObjectsReturned")
            ELSE [f EXCEPT !.ref = "live", !.pc = "u_delete"]]
    /\ UNCHANGED <<friendships, notifs, posts, likes, comments, teamVars, chatVars, restVars>>

\* A delete that removes the edge only when it is accepted.
FriendshipDeleteAccepted(fr, a, b) == DeleteAll(fr, Edge(a, b, TRUE))

\* Line 92: friendship.delete() removes the row whatever its is_accepted.
FriendshipDelete(fr, a, b) == DeleteAll(DeleteAll(fr, Edge(a, b, FALSE)), Edge(a, b, TRUE))

\* Lines 92-96: friendship.delete(), a DELETE by primary key.
UnfollowDelete(h) ==
    /\ req[h].pc = "u_delete"
    /\ LET f == req[h] IN
         IF f.ref = "live"
         THEN /\ friendships' = FriendshipDelete(friendships, f.me, f.arg)
              /\ req' = [Invalidate(req, h, f.me, f.arg) EXCEPT ![h] =
                            Respond([f EXCEPT !.ref = "none"], 200, "Unfollowed")]
         ELSE /\ req' = [req EXCEPT ![h] = Respond(f, 200, "Unfollowed")]
              /\ UNCHANGED friendships
    /\ UNCHANGED <<notifs, posts, likes, comments, teamVars, chatVars, restVars>>

---------------------------------------------------------------------------
\* PostViewSet.perform_create, PostViewSet.like, PostViewSet.comments

PostExists(pid) == pid \in 1..Len(posts)

\* The followers filter without is_accepted=True.
AnyFollowers(fr, author) == {u \in Users : EdgeRows(fr, u, author) > 0}

\* Lines 211-214: the accepted followers of the author, read in one query.
AcceptedFollowers(fr, author) == {u \in Users : EdgeAccepted(fr, u, author)}

\* Line 207: serializer.save(author=request.user)
PostCreate(h, me) ==
    /\ req[h].pc = "idle"
    /\ Len(posts) < MaxPosts
    /\ posts' = Append(posts, [author |-> me])
    /\ req' = [req EXCEPT ![h] =
                  [Begun(h, "post", me) EXCEPT !.post = Len(posts) + 1, !.pc = "p_query"]]
    /\ UNCHANGED <<friendships, notifs, likes, comments, teamVars, chatVars, restVars>>

\* Line 216: the for loop evaluates the followers queryset.
PostQuery(h) ==
    /\ req[h].pc = "p_query"
    /\ LET fs == AcceptedFollowers(friendships, req[h].me) IN
         req' = [req EXCEPT ![h] = [@ EXCEPT !.snap = fs, !.todo = fs, !.pc = "p_loop"]]
    /\ UNCHANGED <<friendships, notifs, posts, likes, comments, teamVars, chatVars, restVars>>

\* Lines 216-224: one Notification.objects.create of the loop.  Nothing catches
\* a failed write: the exception leaves perform_create and the request ends 500.
PostNotify(h, u, fault) ==
    /\ req[h].pc = "p_loop"
    /\ u \in req[h].todo
    /\ IF fault
       THEN /\ req' = [req EXCEPT ![h] = Respond([@ EXCEPT !.nfail = TRUE], 500, "Exception")]
            /\ UNCHANGED notifs
       ELSE /\ notifs' = Insert(notifs, Notif(u, "post", req[h].me))
            /\ req' = [req EXCEPT ![h] = [@ EXCEPT !.todo = @ \ {u}]]
    /\ UNCHANGED <<friendships, posts, likes, comments, teamVars, chatVars, restVars>>

\* Line 226 and CreateModelMixin.create: 201 once the loop is over.
PostReturn(h) ==
    /\ req[h].pc = "p_loop"
    /\ req[h].todo = {}
    /\ req' = [req EXCEPT ![h] = Respond(@, 201, "")]
    /\ UNCHANGED <<friendships, notifs, posts, likes, comments, teamVars, chatVars, restVars>>

\* A found like treated like a created one.
LikeFoundNotifies(f) == [f EXCEPT !.pc = "l_notify"]

\* Line 253: the like was found, not created.
LikeFound(f) == Respond(f, 200, "Already liked")

\* Lines 231-239: get_object and the SELECT of PostLike.objects.get_or_create.
LikeBegin(h, me, pid) ==
    /\ req[h].pc = "idle"
    /\ PostExists(pid) =>
          CopiesIn(Notif(posts[pid].author, "like", me), notifs) < MaxNotifs
    /\ LET f == [Begun(h, "like", me) EXCEPT !.post = pid]
           n == CopiesIn(<<pid, me>>, likes) IN
         req' = [req EXCEPT ![h] =
            IF ~PostExists(pid) THEN Respond(f, 404, "Not found")
            ELSE IF n = 0 THEN [f EXCEPT !.pc = "l_create"]
            ELSE IF n > 1 THEN Respond(f, 500, "MultipleObjectsReturned")
            ELSE LikeFound(f)]
    /\ UNCHANGED <<friendships, notifs, posts, likes, comments, teamVars, chatVars, restVars>>

\* The author notified of every like and comment, the author's own included.
NotifiesAlways(author, actor) == TRUE

\* Lines 243 and 285: if post.author != request.user
NotifiesAuthor(author, actor) == author # actor

\* The INSERT of PostLike.objects.get_or_create and lines 240-253.
LikeCreate(h) ==
    /\ req[h].pc = "l_create"
    /\ LET f == req[h]
           n == CopiesIn(<<f.post, f.me>>, likes) IN
         IF PostLikeUniquePair /\ n > 0
         THEN /\ req' = [req EXCEPT ![h] = LikeFound([f EXCEPT !.conflict = TRUE])]
              /\ UNCHANGED likes
         ELSE /\ likes' = Insert(likes, <<f.post, f.me>>)
              /\ req' = [req EXCEPT ![h] =
                    IF NotifiesAuthor(posts[f.post].author, f.me)
                    THEN [f EXCEPT !.created = TRUE, !.pc = "l_notify"]
                    ELSE Respond([f EXCEPT !.created = TRUE], 201, "Post liked")]
    /\ UNCHANGED <<friendships, notifs, posts, comments, teamVars, chatVars, restVars>>

\* A like that notifies the author twice.
LikeNotifyTwice(h, fault) ==
    /\ req[h].pc = "l_notify"
    /\ notifs' = Insert(Insert(notifs, Notif(posts[req[h].post].author, "like", req[h].me)),
                        Notif(posts[req[h].post].author, "like", req[h].me))
    /\ req' = [req EXCEPT ![h] = Respond(@, 201, "Post liked")]
    /\ UNCHANGED <<friendships, posts, likes, comments, teamVars, chatVars, restVars>>

\* Lines 244-252: Notification.objects.create, outside any try.
LikeNotify(h, fault) ==
    /\ req[h].pc = "l_notify"
    /\ IF fault
       THEN /\ req' = [req EXCEPT ![h] = Respond([@ EXCEPT !.nfail = TRUE], 500, "Exception")]
            /\ UNCHANGED notifs
       ELSE /\ notifs' = Insert(notifs, Notif(posts[req[h].post].author, "like", req[h].me))
            /\ req' = [req EXCEPT ![h] = Respond(@, 201, "Post liked")]
    /\ UNCHANGED <<friendships, posts, likes, comments, teamVars, chatVars, restVars>>

\* An unlike whose filter leaves out user=request.user.
UnlikeAllOfPost(h, me, pid) ==
    /\ req[h].pc = "idle"
    /\ LET f == [Begun(h, "unlike", me) EXCEPT !.post = pid] IN
         IF ~PostExists(pid)
         THEN /\ req' = [req EXCEPT ![h] = Respond(f, 404, "Not found")]
              /\ UNCHANGED likes
         ELSE /\ likes' = [r \in {k \in DOMAIN likes : k[1] # pid} |-> likes[r]]
              /\ req' = [req EXCEPT ![h] = Respond(f, 200, "Post unliked")]
    /\ UNCHANGED <<friendships, notifs, posts, comments, teamVars, chatVars, restVars>>

\* Lines 254-257: PostLike.objects.filter(post=post, user=request.user).delete()
Unlike(h, me, pid) ==
    /\ req[h].pc = "idle"
    /\ LET f == [Begun(h, "unlike", me) EXCEPT !.post = pid] IN
         IF ~PostExists(pid)
         THEN /\ req' = [req EXCEPT ![h] = Respond(f, 404, "Not found")]
              /\ UNCHANGED likes
         ELSE /\ likes' = DeleteAll(likes, <<pid, me>>)
              /\ req' = [req EXCEPT ![h] = Respond(f, 200, "Post unliked")]
    /\ UNCHANGED <<friendships, notifs, posts, comments, teamVars, chatVars, restVars>>

\* str.strip(): leading and trailing whitespace removed.
IsSpace(c) == c \in {" ", "\t", "\n"}

\* The content taken as it was sent.
NoStrip(s) == s

RECURSIVE LStrip(_)
LStrip(s) == IF s # <<>> /\ IsSpace(Head(s)) THEN LStrip(Tail(s)) ELSE s

RECURSIVE RStrip(_)
RStrip(s) ==
    IF s # <<>> /\ IsSpace(s[Len(s)]) THEN RStrip(SubSeq(s, 1, Len(s) - 1)) ELSE s

Strip(s) == RStrip(LStrip(s))

\* Line 273: request.data.get('content', '').strip()
CommentContent(data) == Strip(IF data = {} THEN <<>> ELSE CHOOSE c \in data : TRUE)

\* Lines 262, 273-281: get_object, the content check and PostComment.objects.create.
CommentBegin(h, me, pid, data) ==
    /\ req[h].pc = "idle"
    /\ LET f == [Begun(h, "comment", me) EXCEPT !.post = pid, !.data = data]
           content == CommentContent(data) IN
         IF ~PostExists(pid)
         THEN /\ req' = [req EXCEPT ![h] = Respond(f, 404, "Not found")]
              /\ UNCHANGED comments
         ELSE IF content = <<>>
         THEN /\ req' = [req EXCEPT ![h] = Respond(f, 400, "Comment content is required")]
              /\ UNCHANGED comments
         ELSE /\ Len(comments) < MaxComments
              /\ comments' = Append(comments, [post |-> pid, author |-> me, content |-> content])
              /\ req' = [req EXCEPT ![h] =
                    IF NotifiesAuthor(posts[pid].author, me)
                    THEN [f EXCEPT !.created = TRUE, !.pc = "c_notify"]
                    ELSE Respond([f EXCEPT !.created = TRUE], 201, "")]
    /\ UNCHANGED <<friendships, notifs, posts, likes, teamVars, chatVars, restVars>>

\* A comment that answers without notifying the author.
CommentNotifySkips(h, fault) ==
    /\ req[h].pc = "c_notify"
    /\ req' = [req EXCEPT ![h] = Respond(@, 201, "")]
    /\ UNCHANGED <<friendships, notifs, posts, likes, comments, teamVars, chatVars, restVars>>

\* Lines 285-293: Notification.objects.create, outside any try.
CommentNotify(h, fault) ==
    /\ req[h].pc = "c_notify"
    /\ IF fault
       THEN /\ req' = [req EXCEPT ![h] = Respond([@ EXCEPT !.nfail = TRUE], 500, "Exception")]
            /\ UNCHANGED notifs
       ELSE /\ notifs' = Insert(notifs, Notif(posts[req[h].post].author, "comment", req[h].me))
            /\ req' = [req EXCEPT ![h] = Respond(@, 201, "")]
    /\ UNCHANGED <<friendships, posts, likes, comments, teamVars, chatVars, restVars>>

---------------------------------------------------------------------------
\* user_feed

\* Line 128: the slice [:100]
FeedPageSize == 100

\* The values of ?filter= the model sends; "mine" is none of the two the view
\* knows and is served like "all".
FeedModes == {"my", "following", "all", "mine"}

\* The users the viewer has any edge to, accepted or not.
AnyFollowingIds(fr, viewer) == {u \in Users : EdgeRows(fr, viewer, u) > 0}

\* Lines 118-121: the ids of the users the viewer follows with is_accepted.
FollowingIds(fr, viewer) == {u \in Users : EdgeAccepted(fr, viewer, u)}

\* Lines 113-125: the ids of the posts the filter selects.
FeedQuery(viewer, mode) ==
    IF mode = "my" THEN {i \in DOMAIN posts : posts[i].author = viewer}
    ELSE IF mode = "following"
    THEN {i \in DOMAIN posts : posts[i].author \in FollowingIds(friendships, viewer)}
    ELSE DOMAIN posts

\* The rows of Q created at time t, in the order the database returns rows of
\* equal created_at: by ascending id (tie = "low") or by descending id.
RowsAt(Q, t, tie) ==
    LET n == Len(posts)
        ids == [k \in 1..n |-> IF tie = "low" THEN k ELSE n + 1 - k]
        Test(i) == i \in Q /\ posts[i].created_at = t
    IN SelectSeq(ids, Test)

LastTime == IF posts = <<>> THEN 0
            ELSE LET i == CHOOSE k \in DOMAIN posts :
                             \A j \in DOMAIN posts : posts[j].created_at <= posts[k].created_at
                 IN posts[i].created_at

\* order_by('created_at'): oldest first.
RECURSIVE OldestFirst(_, _, _)
OldestFirst(Q, t, tie) ==
    IF t = 0 THEN <<>> ELSE OldestFirst(Q, t - 1, tie) \o RowsAt(Q, t, tie)

\* Line 128: order_by('-created_at'), the rows of times t, t-1, ..., 1.
RECURSIVE NewestFirst(_, _, _)
NewestFirst(Q, t, tie) ==
    IF t = 0 THEN <<>> ELSE RowsAt(Q, t, tie) \o NewestFirst(Q, t - 1, tie)

\* Line 128: [:100]
FeedPage(s) == SubSeq(s, 1, IF Len(s) < FeedPageSize THEN Len(s) ELSE FeedPageSize)

\* GET /feed/?filter=mode by viewer: one SELECT, evaluated when the
\* serializer reads the queryset (lines 130-135).
UserFeed(h, viewer, mode, tie) ==
    /\ req[h].pc = "idle"
    /\ req' = [req EXCEPT ![h] =
          Respond([Begun(h, "feed", viewer) EXCEPT
                     !.mode = mode,
                     !.out = FeedPage(NewestFirst(FeedQuery(viewer, mode), LastTime, tie))],
                  200, "")]
    /\ UNCHANGED <<socialVars, teamVars, chatVars, restVars>>

---------------------------------------------------------------------------
\* user_connections

\* Lines 155-158: Friendship.objects.filter(following=user, is_accepted=True)
Followers(fr, u) == {v \in Users : EdgeAccepted(fr, v, u)}

\* The following filter without is_accepted=True.
FollowingAny(fr, u) == {v \in Users : EdgeRows(fr, u, v) > 0}

\* Lines 161-164: Friendship.objects.filter(follower=user, is_accepted=True)
Following(fr, u) == {v \in Users : EdgeAccepted(fr, u, v)}

\* Lines 167-173: computed for a viewer other than the user, with .exists()
IsFollowing(fr, viewer, u) == viewer # u /\ EdgeAccepted(fr, viewer, u)

\* Lines 146-152 and 167-173: the user lookup and the is_following query.
ConnBegin(h, me, target) ==
    /\ req[h].pc = "idle"
    /\ LET f == [Begun(h, "connections", me) EXCEPT !.arg = target] IN
         req' = [req EXCEPT ![h] =
            IF target \notin Users THEN Respond(f, 404, "User not found")
            ELSE [f EXCEPT !.flag = IsFollowing(friendships, me, target),
                           !.pc = "k_followers"]]
    /\ UNCHANGED <<socialVars, teamVars, chatVars, restVars>>

\* Line 181: the list comprehension evaluates the followers queryset.
ConnFollowers(h) ==
    /\ req[h].pc = "k_followers"
    /\ req' = [req EXCEPT ![h] =
          [@ EXCEPT !.snap = Followers(friendships, req[h].arg), !.pc = "k_following"]]
    /\ UNCHANGED <<socialVars, teamVars, chatVars, restVars>>

\* Lines 182-186: the following queryset is evaluated; count() of an
\* evaluated queryset is the length of the rows it holds.
ConnFollowing(h) ==
    /\ req[h].pc = "k_following"
    /\ LET f == req[h]
           fg == Following(friendships, f.arg) IN
         req' = [req EXCEPT ![h] =
            Respond([f EXCEPT !.out =
                       [followers |-> f.snap, following |-> fg,
                        followers_count |-> Cardinality(f.snap),
                        following_count |-> Cardinality(fg),
                        is_following |-> f.flag]],
                    200, "")]
    /\ UNCHANGED <<socialVars, teamVars, chatVars, restVars>>

---------------------------------------------------------------------------
\* chat: Room, Message, MessageViewSet.get_queryset

RoomTypes == {"global", "game", "team", "private"}

\* Room rows (chat/models.py): team is whether the room's team foreign key is
\* set (to the one team, whose members are teamMembers); created_by is NoUser
\* when null.
RoomRows(name) ==
    [name : {name}, room_type : RoomTypes, team : BOOLEAN, is_private : BOOLEAN,
     created_by : Users2 \cup {NoUser}, members : SUBSET Users2, is_active : BOOLEAN]

Lobby ==
    [name |-> "lobby", room_type |-> "global", team |-> FALSE, is_private |-> FALSE,
     created_by |-> NoUser, members |-> {}, is_active |-> TRUE]

Msg(id, rm, author, at) == [id |-> id, room |-> rm, author |-> author, created_at |-> at]

\* .order_by('created_at'): every ordering of the rows by creation time.
OrderedByCreatedAt(S) ==
    { s \in [1..Cardinality(S) -> S] :
        /\ \A i, j \in 1..Cardinality(S) : i # j => s[i] # s[j]
        /\ \A i, j \in 1..Cardinality(S) : i < j => s[i].created_at <= s[j].created_at }

\* A room lookup that leaves out is_active=True.
MessageQuerysetAnyRoom(viewer, name) ==
    LET found == {r \in rooms : r.name = name} IN
    IF name = "" \/ found = {} THEN {}
    ELSE LET r == CHOOSE x \in found : TRUE IN
         IF r.room_type = "team" /\ r.team /\ viewer \notin teamMembers THEN {}
         ELSE {m \in messages : m.room = r.name}

\* Lines 84-95: the rows get_queryset selects for ?room=name ("" when the
\* parameter is missing).
MessageQueryset(viewer, name) ==
    LET found == {r \in rooms : r.name = name /\ r.is_active} IN
    IF name = "" \/ found = {} THEN {}
    ELSE LET r == CHOOSE x \in found : TRUE IN
         IF r.room_type = "team" /\ r.team /\ viewer \notin teamMembers THEN {}
         ELSE {m \in messages : m.room = r.name}

\* RoomViewSet.get_queryset (lines 19-58) with no query parameter: the active
\* rooms that are global or game rooms with is_private unset, team rooms
\* whose team the user is a member of, or rooms of type private with
\* is_private set that the user is a member or the creator of.
RoomQueryset(viewer) ==
    LET active == {r \in rooms : r.is_active}
        accessible_team_rooms ==
            {r \in active : r.room_type = "team" /\ r.team /\ viewer \in teamMembers}
        accessible_private_rooms ==
            {r \in active : /\ r.room_type = "private" /\ r.is_private
                            /\ (viewer \in r.members \/ r.created_by = viewer)}
    IN {r \in active : \/ r.room_type \in {"global", "game"} /\ ~r.is_private
                       \/ r \in accessible_team_rooms
                       \/ r \in accessible_private_rooms}

\* GET /rooms/ by viewer: the names of the rooms listed.
ListRooms(h, viewer) ==
    /\ req[h].pc = "idle"
    /\ req' = [req EXCEPT ![h] =
          Respond([Begun(h, "rooms", viewer) EXCEPT
                     !.out = {r.name : r \in RoomQueryset(viewer)}], 200, "")]
    /\ UNCHANGED <<socialVars, teamVars, chatVars, restVars>>

\* GET /messages/?room=name by viewer.
ListMessages(viewer, name) ==
    /\ \E s \in OrderedByCreatedAt(MessageQueryset(viewer, name)) :
          listing' = [viewer |-> viewer, name |-> name, msgs |-> s]
    /\ UNCHANGED <<socialVars, teamVars, req, rooms, messages, restVars>>

---------------------------------------------------------------------------
\* LFTPostViewSet.recommendations
\* Strings are sequences of characters; None and '' are both <<>> (the view
\* reads every nullable column as `x or ''`).  Scores are kept in hundredths.

\* str.lower() on the characters the model uses.
Lower(c) == CASE c = "G" -> "g" [] c = "S" -> "s" [] c = "C" -> "c" [] c = "X" -> "x" [] OTHER -> c

LowerStr(s) == [i \in 1..Len(s) |-> Lower(s[i])]

\* `a in b` of two strings: a is a contiguous part of b; '' is in every string.
Substring(a, b) ==
    \E k \in 0..(Len(b) - Len(a)) : \A i \in 1..Len(a) : b[k + i] = a[i]

\* game__icontains=part
Icontains(s, part) == Substring(LowerStr(part), LowerStr(s))

\* TfidfVectorizer's token_pattern \b\w\w+\b: the runs of two or more word
\* characters.
IsWordChar(c) == c \notin {" ", "+"}

RECURSIVE Words(_, _)
Words(s, cur) ==
    LET word == IF Len(cur) >= 2 THEN <<cur>> ELSE <<>> IN
    IF s = <<>> THEN word
    ELSE IF IsWordChar(Head(s)) THEN Words(Tail(s), Append(cur, Head(s)))
    ELSE word \o Words(Tail(s), <<>>)

Tokens(s) == Words(LowerStr(s), <<>>)

\* fit_transform raises ValueError (empty vocabulary) when neither document
\* has a token.
CanVectorize(uf, pf) == Tokens(uf) \o Tokens(pf) # <<>>

\* Squared idf of a term, in fortieths: (ln(3/3) + 1)^2 = 1 for a term of both
\* documents, (ln(3/2) + 1)^2 = 1.975 for a term of one.
IdfBoth == 40
IdfOne  == 79

\* Squared length of the tf-idf vector of document d next to document o, in
\* fortieths: the sum over the terms t of tf(t)^2 * idf(t)^2.
SquaredNorm(d, o) ==
    LET same == {p \in (1..Len(d)) \X (1..Len(d)) : d[p[1]] = d[p[2]]}
        InBoth(t) == \E j \in 1..Len(o) : o[j] = t
    IN IdfBoth * Cardinality({p \in same : InBoth(d[p[1]])})
       + IdfOne * Cardinality({p \in same : ~InBoth(d[p[1]])})

\* Lines 419-421: cosine similarity of the two tf-idf vectors, rounded down to
\* hundredths; 0 when one vector is zero.
Similarity(uf, pf) ==
    LET us  == Tokens(uf)
        ps  == Tokens(pf)
        dot == Cardinality({p \in (1..Len(us)) \X (1..Len(ps)) : us[p[1]] = ps[p[2]]})
        nn  == SquaredNorm(us, ps) * SquaredNorm(ps, us)
        top == (IdfBoth * 100 * dot) * (IdfBoth * 100 * dot)
    IN IF dot = 0 THEN 0
       ELSE CHOOSE x \in 0..100 :
               /\ x * x * nn <= top
               /\ x < 100 => (x + 1) * (x + 1) * nn > top

RankBonus     == 20   \* line 426: 0.2
GameBonus     == 10   \* line 428: 0.1
FallbackBase  == 10   \* line 450: 0.1
FallbackBonus == 30   \* line 453: 0.3
RecommendationLimit == 10   \* line 479: [:10]

\* Line 411 and line 415.
UserFeatures(p) == LowerStr(p.rank \o <<" ">> \o p.gamer_tag)

PostFeatures(post) ==
    LowerStr(post.rank \o <<" ">> \o post.game \o <<" ">> \o post.play_style)

\* Lines 421-428: the score of the try block.
VectorScore(p, post, gf) ==
    LET sim == Similarity(UserFeatures(p), PostFeatures(post)) IN
    [match_score |->
        sim + (IF p.rank # <<>> /\ post.rank # <<>>
                  /\ LowerStr(p.rank) = LowerStr(post.rank)
               THEN RankBonus ELSE 0)
            + (IF gf # <<>> /\ Substring(LowerStr(gf), LowerStr(post.game))
               THEN GameBonus ELSE 0),
     similarity |-> sim]

\* A fallback without the rank bonus.
FallbackFlat(ur, pr) == FallbackBase

\* Lines 450-453: the score of the except block.
FallbackScore(ur, pr) ==
    FallbackBase
    + (IF /\ ur # <<>>
          /\ pr # <<>>
          /\ \/ Substring(LowerStr(ur), LowerStr(pr))
             \/ Substring(LowerStr(pr), LowerStr(ur))
       THEN FallbackBonus ELSE 0)

\* Lines 414-472: one pass of the loop, try and except.
Recommendation(p, post, gf) ==
    LET s == IF CanVectorize(UserFeatures(p), PostFeatures(post))
             THEN VectorScore(p, post, gf)
             ELSE [match_score |-> FallbackScore(p.rank, post.rank),
                   similarity  |-> FallbackScore(p.rank, post.rank)]
    IN [id |-> post.id, match_score |-> s.match_score, similarity |-> s.similarity]

\* Lines 400-405: active posts of other authors, of the game asked for.
LftQueryset(me, gf) ==
    SelectSeq(lftPosts, LAMBDA r : /\ r.is_active
                                   /\ r.author # me
                                   /\ gf # <<>> => Icontains(r.game, gf))

\* A descending sort that puts the later of two equal scores first.
RECURSIVE SortedTiesReversed(_)
SortedTiesReversed(s) ==
    IF s = <<>> THEN <<>>
    ELSE LET init == SortedTiesReversed(SubSeq(s, 1, Len(s) - 1))
             e    == s[Len(s)]
         IN SelectSeq(init, LAMBDA x : x.match_score > e.match_score)
            \o <<e>>
            \o SelectSeq(init, LAMBDA x : x.match_score <= e.match_score)

\* Line 475: list.sort(key=match_score, reverse=True), a stable sort: entries
\* of equal score keep the order they were appended in.
RECURSIVE SortedByScore(_)
SortedByScore(s) ==
    IF s = <<>> THEN <<>>
    ELSE LET init == SortedByScore(SubSeq(s, 1, Len(s) - 1))
             e    == s[Len(s)]
         IN SelectSeq(init, LAMBDA x : x.match_score >= e.match_score)
            \o <<e>>
            \o SelectSeq(init, LAMBDA x : x.match_score < e.match_score)

\* Lines 479-480: recommendations[:10]
TopRecommendations(s) ==
    SubSeq(s, 1, IF Len(s) < RecommendationLimit THEN Len(s) ELSE RecommendationLimit)

\* GET /lft-posts/recommendations/?game=gf by me.  An empty queryset answers
\* with the empty list (lines 407-408), as the loop over it does.
Recommendations(h, me, gf) ==
    /\ req[h].pc = "idle"
    /\ LET q    == LftQueryset(me, gf)
           recs == [i \in 1..Len(q) |-> Recommendation(profiles[me], q[i], gf)]
           top  == TopRecommendations(SortedByScore(recs))
       IN req' = [req EXCEPT ![h] =
                    Respond([Begun(h, "recommendations", me) EXCEPT
                               !.game = gf, !.out = top, !.cnt = Len(top)],
                            200, "")]
    /\ UNCHANGED <<socialVars, teamVars, chatVars, restVars>>

---------------------------------------------------------------------------
\* ai_engine/tasks.py: generate_match_insight, a Celery task.  Runs of the
\* task are handler frames; the workers run them concurrently.

Tournaments  == {"t1"}
NoTournament == "gone"          \* an id that matches no Tournament row
Summaries    == {"s1", "s2"}    \* texts the completion API may answer with
MockSummary  == "mock"          \* json.dumps(mock_insight)

\* The (user, tournament) uniqueness of the MatchInsight table.
InsightUniquePair == TRUE

InsightRow(id, u, t, status, summary) ==
    [id |-> id, user |-> u, tournament |-> t, status |-> status,
     ai_summary |-> summary]

InsightsOf(u, t) == {r \in insights : r.user = u /\ r.tournament = t}

\* The value the task returns: its 'status' and 'error' entries.
TaskReturn(f, status, error) ==
    [f EXCEPT !.pc = "done", !.ref = status, !.error = error]

\* Lines 33-34: User.objects.get, Tournament.objects.get and the handlers of
\* their DoesNotExist (lines 135-138).
InsightBegin(h, u, t) ==
    /\ req[h].pc = "idle"
    /\ LET f == [Begun(h, "insight", u) EXCEPT !.arg = t] IN
         req' = [req EXCEPT ![h] =
                   IF u \notin Users THEN TaskReturn(f, "error", "User not found")
                   ELSE IF t \notin Tournaments
                        THEN TaskReturn(f, "error", "Tournament not found")
                        ELSE [f EXCEPT !.pc = "i_get"]]
    /\ UNCHANGED <<socialVars, teamVars, chatVars, restVars>>

\* Lines 37-44: get_or_create has returned the row (snap is the instance,
\* cnt its id); a row that was found completed ends the run.
InsightGot(f, row, created) ==
    IF ~created /\ row.status = "completed"
    THEN TaskReturn([f EXCEPT !.snap = row, !.cnt = row.id], "exists", "")
    ELSE [f EXCEPT !.pc = "i_call", !.snap = row, !.cnt = row.id,
                   !.created = created]

\* get_or_create, the SELECT.  More than one row raises
\* MultipleObjectsReturned, which line 139 turns into an error return.
InsightGet(h) ==
    /\ req[h].pc = "i_get"
    /\ LET rows == InsightsOf(req[h].me, req[h].arg) IN
         req' = [req EXCEPT ![h] =
                   IF rows = {} THEN [@ EXCEPT !.pc = "i_insert"]
                   ELSE IF Cardinality(rows) > 1
                        THEN TaskReturn(@, "error", "MultipleObjectsReturned")
                        ELSE InsightGot(@, CHOOSE r \in rows : TRUE, FALSE)]
    /\ UNCHANGED <<socialVars, teamVars, chatVars, restVars>>

\* get_or_create, the INSERT with status 'processing'.  On a unique pair the
\* INSERT of a second row raises IntegrityError and the stored row is read.
InsightCreate(h) ==
    /\ req[h].pc = "i_insert"
    /\ LET rows == InsightsOf(req[h].me, req[h].arg)
           row  == InsightRow(Cardinality(insights) + 1, req[h].me, req[h].arg,
                              "processing", "")
       IN IF InsightUniquePair /\ rows # {}
          THEN /\ req' = [req EXCEPT ![h] = InsightGot(@, CHOOSE r \in rows : TRUE, FALSE)]
               /\ UNCHANGED insights
          ELSE /\ insights' = insights \cup {row}
               /\ req' = [req EXCEPT ![h] = InsightGot(@, row, TRUE)]
    /\ UNCHANGED <<socialVars, teamVars, chatVars, lftVars, users, openaiKey>>

\* An exception handler that leaves the status as it was.
AfterFailureKeeps(inst) == inst

\* Lines 111-113: the handler of a failed API call sets status 'failed' on
\* the instance.
AfterFailure(inst) == [inst EXCEPT !.status = "failed"]

\* Lines 101-102 and 124-125: summary and status 'completed' on the instance.
AfterSuccess(inst, summary) ==
    [inst EXCEPT !.status = "completed", !.ai_summary = summary]

\* Lines 58-98 and 116-125: with a key the completion API is called and
\* answers with a text (JSON or not, it becomes the summary) or raises;
\* without a key the mock insight is built.  The outcome is set on the
\* instance the run holds.
InsightCall(h) ==
    /\ req[h].pc = "i_call"
    /\ \/ /\ openaiKey
          /\ \/ \E s \in Summaries :
                  req' = [req EXCEPT ![h] =
                            [@ EXCEPT !.pc = "i_save", !.ref = "success",
                                      !.snap = AfterSuccess(req[h].snap, s)]]
             \/ req' = [req EXCEPT ![h] =
                          [@ EXCEPT !.pc = "i_save", !.ref = "error",
                                    !.error = "api",
                                    !.snap = AfterFailure(req[h].snap)]]
       \/ /\ ~openaiKey
          /\ req' = [req EXCEPT ![h] =
                       [@ EXCEPT !.pc = "i_save", !.ref = "success",
                                 !.snap = AfterSuccess(req[h].snap, MockSummary)]]
    /\ UNCHANGED <<socialVars, teamVars, chatVars, restVars>>

\* Lines 103, 114, 126: insight.save() writes every column of the instance
\* over the row of its id; the run returns.
InsightSave(h) ==
    /\ req[h].pc = "i_save"
    /\ insights' = {r \in insights : r.id # req[h].snap.id} \cup {req[h].snap}
    /\ req' = [req EXCEPT ![h] = [@ EXCEPT !.pc = "done"]]
    /\ UNCHANGED <<socialVars, teamVars, chatVars, lftVars, users, openaiKey>>

InsightStep(h) ==
    \/ InsightGet(h)
    \/ InsightCreate(h)
    \/ InsightCall(h)
    \/ InsightSave(h)

---------------------------------------------------------------------------
\* accounts/models.py: CustomUser.save.  A vin_id is a string, a sequence of
\* characters; None and '' are both <<>>.

VinWidth == 7    \* line 64: {next_number:07d}

NoVin == <<>>

DigitChars == <<"0", "1", "2", "3", "4", "5", "6", "7", "8", "9">>

IsDigit(c) == \E i \in 1..10 : DigitChars[i] = c

DigitValue(c) == (CHOOSE i \in 1..10 : DigitChars[i] = c) - 1

\* vin.split('-'): the parts of s between the dashes; cur is the part being
\* read.
RECURSIVE Split(_, _)
Split(s, cur) ==
    IF s = <<>> THEN <<cur>>
    ELSE IF Head(s) = "-" THEN <<cur>> \o Split(Tail(s), <<>>)
    ELSE Split(Tail(s), Append(cur, Head(s)))

\* int(part) raises ValueError unless the part is a number.
IsInt(p) == p # <<>> /\ \A i \in 1..Len(p) : IsDigit(p[i])

RECURSIVE IntOf(_)
IntOf(p) ==
    IF p = <<>> THEN 0
    ELSE 10 * IntOf(SubSeq(p, 1, Len(p) - 1)) + DigitValue(p[Len(p)])

\* Lines 52-58: int(vin.split('-')[1]); a vin_id without a second part
\* (IndexError) or with one that is no number (ValueError) is skipped, which
\* leaves max_number as it is.
VinNumber(vin) ==
    LET parts == Split(vin, <<>>) IN
    IF Len(parts) >= 2 /\ IsInt(parts[2]) THEN IntOf(parts[2]) ELSE 0

\* Lines 44-48: the vin_id values that are neither NULL nor ''.
ExistingVins == {r.vin_id : r \in {x \in users : x.vin_id # NoVin}}

\* Lines 50-58: max_number over the existing vin_ids, 0 when there is none.
MaxNumber(vins) ==
    LET nums == {0} \cup {VinNumber(v) : v \in vins} IN
    CHOOSE m \in nums : \A n \in nums : n <= m

RECURSIVE Decimal(_)
Decimal(n) ==
    IF n < 10 THEN <<DigitChars[n + 1]>>
    ELSE Decimal(n \div 10) \o <<DigitChars[(n % 10) + 1]>>

ZeroPad(d) == [i \in 1..(VinWidth - Len(d)) |-> "0"] \o d

\* Line 64: f"VIN-{next_number:07d}"
FormatVin(n) == <<"V", "I", "N", "-">> \o ZeroPad(Decimal(n))

UserRow(name, vin) == [username |-> name, vin_id |-> vin]

\* save() of a user instance without a vin_id, lines 42-64: the existing
\* vin_ids are read (cnt is max_number) and the next one is set on the
\* instance (out).  The instance is a new user or a stored one without a
\* vin_id, and no other save of it is in flight.
SaveBegin(h, name) ==
    /\ req[h].pc = "idle"
    /\ \A r \in users : r.username = name => r.vin_id = NoVin
    /\ \A g \in Slots : req[g].op = "save" => req[g].me # name
    /\ LET max == MaxNumber(ExistingVins) IN
         req' = [req EXCEPT ![h] =
                   [Begun(h, "save", name) EXCEPT
                      !.pc = "s_write", !.cnt = max, !.out = FormatVin(max + 1)]]
    /\ UNCHANGED <<socialVars, teamVars, chatVars, restVars>>

\* Line 66: super().save(), the INSERT or UPDATE of the row.  A vin_id that
\* another row holds violates the unique index of the column (line 19): the
\* statement raises IntegrityError out of save() and nothing is written.
SaveWrite(h) ==
    /\ req[h].pc = "s_write"
    /\ IF \E r \in users : r.username # req[h].me /\ r.vin_id = req[h].out
       THEN /\ req' = [req EXCEPT ![h] =
                         [@ EXCEPT !.pc = "done", !.ref = "error",
                                   !.error = "IntegrityError"]]
            /\ UNCHANGED users
       ELSE /\ users' = {r \in users : r.username # req[h].me}
                           \cup {UserRow(req[h].me, req[h].out)}
            /\ req' = [req EXCEPT ![h] = [@ EXCEPT !.pc = "done", !.ref = "saved"]]
    /\ UNCHANGED <<socialVars, teamVars, chatVars, lftVars, insights, openaiKey>>

---------------------------------------------------------------------------
InitSocialEmpty ==
    /\ friendships = EmptyBag
    /\ notifs = EmptyBag
    /\ posts = <<>>
    /\ likes = EmptyBag
    /\ comments = <<>>

NoListing == [viewer |-> NoUser, name |-> "", msgs |-> <<>>]

InitChatEmpty ==
    /\ rooms = {}
    /\ messages = {}
    /\ listing = NoListing

NoProfile == [rank |-> <<>>, gamer_tag |-> <<>>]

InitLftEmpty ==
    /\ lftPosts = <<>>
    /\ profiles = [u \in Users |-> NoProfile]

InitRestEmpty ==
    /\ InitLftEmpty
    /\ insights = {}
    /\ users = {}
    /\ openaiKey = FALSE

InitTeamFixed ==
    /\ teamMembers = {}
    /\ teamMax = 1

\* Teams: a team created with any cap and any member set within the cap.
InitTeam ==
    /\ InitSocialEmpty
    /\ InitChatEmpty
    /\ InitRestEmpty
    /\ teamMax \in 1..MaxTeamCap
    /\ teamMembers \in {S \in SUBSET Users : Cardinality(S) <= teamMax}
    /\ req = [h \in Slots |-> Idle]

NextTeam ==
    \E h \in Handlers :
        \/ \E u \in Users : JoinBegin(h, u)
        \/ JoinAdd(h)
        \/ \E u \in Users : Leave(h, u)
        \/ Return(h)

SpecTeam == InitTeam /\ [][NextTeam]_vars

\* Join and leave requests served one at a time.
NextTeamSeq ==
    \E h \in Single :
        \/ \E u \in Users : JoinBegin(h, u)
        \/ JoinAdd(h)
        \/ \E u \in Users : Leave(h, u)
        \/ Return(h)

SpecTeamSeq == InitTeam /\ [][NextTeamSeq]_vars

\* Follow graph: any duplicate-free table of edges between two users, accepted
\* or not, and at most one earlier follow notification per pair.
ValidEdges(U) ==
    { SetToBag(S) : S \in { T \in SUBSET { Edge(a, b, acc) : a \in U, b \in U, acc \in BOOLEAN } :
            \A e \in T : /\ e.follower # e.following
                         /\ Edge(e.follower, e.following, ~e.is_accepted) \notin T } }

FollowNotifs(U) ==
    { SetToBag(S) : S \in SUBSET { k \in { Notif(b, "follow", a) : a \in U, b \in U } :
                                        k.user # k.related } }

InitFollow ==
    /\ friendships \in ValidEdges(Users2)
    /\ notifs \in FollowNotifs(Users2)
    /\ posts = <<>>
    /\ likes = EmptyBag
    /\ comments = <<>>
    /\ InitTeamFixed
    /\ InitChatEmpty
    /\ InitRestEmpty
    /\ req = [h \in Slots |-> Idle]

\* The steps of a follow that finds no unaccepted edge.
FollowNewSteps(H, U, F) ==
    \E h \in H :
        \/ \E me \in U, target \in U \cup {NoUser} : FollowBegin(h, me, target)
        \/ FollowCreate(h)
        \/ \E fault \in F : FollowNotifGet(h, fault)
        \/ \E fault \in F : FollowNotifCreate(h, fault)

FollowSteps(H, U, F) ==
    \/ FollowNewSteps(H, U, F)
    \/ \E h \in H : FollowAccept(h)

UnfollowSteps(H, U) ==
    \E h \in H :
        \/ \E me \in U, target \in U \cup {NoUser} : UnfollowBegin(h, me, target)
        \/ UnfollowDelete(h)

NextFollow ==
    \/ FollowSteps(Duo, Users2, BOOLEAN)
    \/ UnfollowSteps(Duo, Users2)
    \/ \E h \in Duo : Return(h)

\* Follow and unfollow requests served concurrently.
SpecFollow == InitFollow /\ [][NextFollow]_vars

\* Follow requests only, served concurrently by two handlers, from a state
\* with no edge and with notification writes that succeed.  Every stored edge
\* is then an accepted one, so the accept step of lines 50-52 has no part.
InitFollowOnly ==
    /\ friendships = EmptyBag
    /\ notifs \in FollowNotifs(Users2)
    /\ posts = <<>>
    /\ likes = EmptyBag
    /\ comments = <<>>
    /\ InitTeamFixed
    /\ InitChatEmpty
    /\ InitRestEmpty
    /\ req = [h \in Slots |-> Idle]

NextFollowOnly ==
    \/ FollowNewSteps(Duo, Users2, {FALSE})
    \/ \E h \in Duo : Return(h)

SpecFollowOnly == InitFollowOnly /\ [][NextFollowOnly]_vars

\* Follow and unfollow requests served one at a time.
NextFollowSeq ==
    \/ FollowSteps(Single, Users2, BOOLEAN)
    \/ UnfollowSteps(Single, Users2)
    \/ \E h \in Single : Return(h)

SpecFollowSeq == InitFollow /\ [][NextFollowSeq]_vars

\* Chat: the lobby and one more room of any type and membership, messages in
\* both, and message listings by two users.
RoomNames == {"", "r1", "lobby", "gone"}

InitChat ==
    /\ InitSocialEmpty
    /\ teamMax = MaxTeamCap
    /\ teamMembers \in {S \in SUBSET Users2 : Cardinality(S) <= teamMax}
    /\ rooms \in {{Lobby, r} : r \in RoomRows("r1")}
    /\ messages \in SUBSET {Msg(1, "r1", "A", 2), Msg(2, "r1", "B", 1), Msg(3, "lobby", "A", 1)}
    /\ listing = NoListing
    /\ InitRestEmpty
    /\ req = [h \in Slots |-> Idle]

NextChat == \E viewer \in Users2, name \in RoomNames : ListMessages(viewer, name)

SpecChat == InitChat /\ [][NextChat]_vars

\* Room listings by two users, over the lobby and one more room of any type,
\* flags and membership.
InitRooms ==
    /\ InitSocialEmpty
    /\ teamMax = MaxTeamCap
    /\ teamMembers \in {S \in SUBSET Users2 : Cardinality(S) <= teamMax}
    /\ rooms \in {{Lobby, r} : r \in RoomRows("r1")}
    /\ messages = {}
    /\ listing = NoListing
    /\ InitRestEmpty
    /\ req = [h \in Slots |-> Idle]

NextRooms ==
    \E h \in Single :
        \/ \E viewer \in Users2 : ListRooms(h, viewer)
        \/ Return(h)

SpecRooms == InitRooms /\ [][NextRooms]_vars

PostSteps(H, U, F) ==
    \E h \in H :
        \/ \E me \in U : PostCreate(h, me)
        \/ PostQuery(h)
        \/ \E u \in Users, fault \in F : PostNotify(h, u, fault)
        \/ PostReturn(h)

LikeSteps(H, U, F) ==
    \E h \in H :
        \/ \E me \in U, pid \in PostIds : LikeBegin(h, me, pid)
        \/ LikeCreate(h)
        \/ \E fault \in F : LikeNotify(h, fault)

UnlikeSteps(H, U) ==
    \E h \in H, me \in U, pid \in PostIds : Unlike(h, me, pid)

CommentSteps(H, U, F) ==
    \E h \in H :
        \/ \E me \in U, pid \in PostIds, data \in Payloads : CommentBegin(h, me, pid, data)
        \/ \E fault \in F : CommentNotify(h, fault)

\* Post creation among three users, served one at a time, over every
\* duplicate-free follow graph.
InitPost ==
    /\ friendships \in ValidEdges(Users)
    /\ notifs = EmptyBag
    /\ posts = <<>>
    /\ likes = EmptyBag
    /\ comments = <<>>
    /\ InitTeamFixed
    /\ InitChatEmpty
    /\ InitRestEmpty
    /\ req = [h \in Slots |-> Idle]

NextPost ==
    \/ PostSteps(Single, Users, BOOLEAN)
    \/ \E h \in Single : Return(h)

SpecPost == InitPost /\ [][NextPost]_vars

\* Like requests only, served concurrently, on stored posts some of which
\* are liked already.
InitLike ==
    /\ friendships = EmptyBag
    /\ notifs = EmptyBag
    /\ posts \in [1..MaxPosts -> [author : Users2]]
    /\ likes \in {SetToBag(S) : S \in SUBSET ((1..MaxPosts) \X Users2)}
    /\ comments = <<>>
    /\ InitTeamFixed
    /\ InitChatEmpty
    /\ InitRestEmpty
    /\ req = [h \in Slots |-> Idle]

NextLike ==
    \/ LikeSteps(Handlers, Users2, BOOLEAN)
    \/ \E h \in Handlers : Return(h)

SpecLike == InitLike /\ [][NextLike]_vars

\* Every social request, served one at a time, with notification writes that
\* may fail.
InitSocialSeq ==
    /\ friendships \in ValidEdges(Users2)
    /\ notifs \in FollowNotifs(Users2)
    /\ posts \in {<<>>} \cup {<<[author |-> u]>> : u \in Users2}
    /\ likes = EmptyBag
    /\ comments = <<>>
    /\ InitTeamFixed
    /\ InitChatEmpty
    /\ InitRestEmpty
    /\ req = [h \in Slots |-> Idle]

NextSocialSeq ==
    \/ FollowSteps(Single, Users2, BOOLEAN)
    \/ UnfollowSteps(Single, Users2)
    \/ PostSteps(Single, Users2, BOOLEAN)
    \/ LikeSteps(Single, Users2, BOOLEAN)
    \/ UnlikeSteps(Single, Users2)
    \/ CommentSteps(Single, Users2, BOOLEAN)
    \/ \E h \in Single : Return(h)

SpecSocialSeq == InitSocialSeq /\ [][NextSocialSeq]_vars

\* Likes and unlikes served one at a time, with notification writes that
\* succeed, on stored posts some of which are liked and commented already.
OneComment(u) == [post |-> 1, author |-> u, content |-> <<"g", "g">>]

InitLikeSeq ==
    /\ friendships = EmptyBag
    /\ posts \in [1..MaxPosts -> [author : Users2]]
    /\ likes \in {SetToBag(S) : S \in SUBSET ((1..MaxPosts) \X Users2)}
    /\ \/ comments = <<>> /\ notifs = EmptyBag
       \/ \E u \in Users2 :
             /\ comments = <<OneComment(u)>>
             /\ notifs = IF NotifiesAuthor(posts[1].author, u)
                         THEN SetToBag({Notif(posts[1].author, "comment", u)})
                         ELSE EmptyBag
    /\ InitTeamFixed
    /\ InitChatEmpty
    /\ InitRestEmpty
    /\ req = [h \in Slots |-> Idle]

NextLikeSeq ==
    \/ LikeSteps(Single, Users2, {FALSE})
    \/ UnlikeSteps(Single, Users2)
    \/ \E h \in Single : Return(h)

SpecLikeSeq == InitLikeSeq /\ [][NextLikeSeq]_vars

\* Comments served one at a time, with notification writes that succeed, on
\* stored posts.
InitCommentSeq ==
    /\ friendships = EmptyBag
    /\ notifs = EmptyBag
    /\ posts \in [1..MaxPosts -> [author : Users2]]
    /\ likes = EmptyBag
    /\ comments = <<>>
    /\ InitTeamFixed
    /\ InitChatEmpty
    /\ InitRestEmpty
    /\ req = [h \in Slots |-> Idle]

NextCommentSeq ==
    \/ CommentSteps(Single, Users2, {FALSE})
    \/ \E h \in Single : Return(h)

SpecCommentSeq == InitCommentSeq /\ [][NextCommentSeq]_vars

\* Post tables a feed is read from: every small table, whose rows may share a
\* creation time or have one that runs against the id order, and two tables
\* with more rows than a page holds: one of a single author with distinct
\* times, one whose rows share their times in pairs, with two rows of the
\* other author.
SmallTables ==
    UNION {[1..n -> [author : Users2, created_at : 1..MaxTime]] : n \in 0..MaxFeedPosts}

LongTables ==
    { [i \in 1..(FeedPageSize + 1) |-> [author |-> "A", created_at |-> i]],
      [i \in 1..(FeedPageSize + 3) |->
          [author |-> IF i \in {3, FeedPageSize \div 2} THEN "B" ELSE "A",
           created_at |-> (i + 1) \div 2]] }

InitFeed ==
    /\ friendships \in ValidEdges(Users2)
    /\ notifs = EmptyBag
    /\ posts \in SmallTables \cup LongTables
    /\ likes = EmptyBag
    /\ comments = <<>>
    /\ InitTeamFixed
    /\ InitChatEmpty
    /\ InitRestEmpty
    /\ req = [h \in Slots |-> Idle]

\* Feed, follow and unfollow requests served one at a time.
NextFeed ==
    \/ \E h \in Single, viewer \in Users2, mode \in FeedModes, tie \in {"low", "high"} :
          UserFeed(h, viewer, mode, tie)
    \/ FollowSteps(Single, Users2, {FALSE})
    \/ UnfollowSteps(Single, Users2)
    \/ \E h \in Single : Return(h)

SpecFeed == InitFeed /\ [][NextFeed]_vars

\* Connection listings among three users, served one at a time, over every
\* duplicate-free follow graph.
InitConn ==
    /\ friendships \in ValidEdges(Users)
    /\ notifs = EmptyBag
    /\ posts = <<>>
    /\ likes = EmptyBag
    /\ comments = <<>>
    /\ InitTeamFixed
    /\ InitChatEmpty
    /\ InitRestEmpty
    /\ req = [h \in Slots |-> Idle]

NextConn ==
    \E h \in Single :
        \/ \E me \in Users, target \in Users \cup {NoUser} : ConnBegin(h, me, target)
        \/ ConnFollowers(h)
        \/ ConnFollowing(h)
        \/ Return(h)

SpecConn == InitConn /\ [][NextConn]_vars

\* Every request that writes a notification (follow, post creation, like,
\* comment), served one at a time from empty tables, with notification
\* writes that succeed.
InitNotify ==
    /\ InitSocialEmpty
    /\ InitTeamFixed
    /\ InitChatEmpty
    /\ InitRestEmpty
    /\ req = [h \in Slots |-> Idle]

NextNotify ==
    \/ FollowNewSteps(Single, Users2, {FALSE})
    \/ PostSteps(Single, Users2, {FALSE})
    \/ LikeSteps(Single, Users2, {FALSE})
    \/ \E h \in Single, me \in Users2, pid \in PostIds :
          CommentBegin(h, me, pid, {<<"g", "g">>})
    \/ \E h \in Single : CommentNotify(h, FALSE)
    \/ \E h \in Single : Return(h)

SpecNotify == InitNotify /\ [][NextNotify]_vars

\* C1: in every reachable state the team has at most max_members members,
\* whatever the interleaving of join and leave handlers.
C1_MembersWithinCap == Cardinality(teamMembers) <= teamMax

Quiet(H) == \A h \in H : req[h].pc \in {"idle", "done"}

FollowNotifRows(a, b) == CopiesIn(Notif(b, "follow", a), notifs)

FollowSucceeded(f) == f.pc = "done" /\ f.op = "follow" /\ f.status \in {200, 201}

\* C2: from a state with no edge, follow calls on a pair (two of them at a
\* time, in any interleaving) leave exactly one stored edge for the pair and,
\* once the handlers are through, exactly one follow notification with the
\* followed user as recipient and the follower as related user.
C2_FollowTwiceOneEdgeOneNotif ==
    /\ \A a \in Users, b \in Users : EdgeRows(friendships, a, b) <= 1
    /\ \A h \in Duo :
          FollowSucceeded(req[h]) =>
             /\ EdgeRows(friendships, req[h].me, req[h].arg) = 1
             /\ Quiet(Duo) => FollowNotifRows(req[h].me, req[h].arg) = 1

\* Two follow(A,B) handlers have both answered; one of them lost the race for
\* the INSERT after both had read that no edge was stored.
C2_Witness ==
    /\ \A h \in Duo : FollowSucceeded(req[h]) /\ req[h].me = "A" /\ req[h].arg = "B"
    /\ req[1].status = 201 /\ req[2].status = 200 /\ req[2].conflict
    /\ FollowNotifRows("A", "B") = 1

\* C3: at most one (unread) follow notification per recipient and related
\* user, in every reachable state of interleaved follow and unfollow handlers.
C3_AtMostOneFollowNotif ==
    \A r \in Users, f \in Users : CopiesIn(Notif(r, "follow", f), notifs) <= 1

\* C6: follow(u, u) always answers the self-follow error and no edge from a
\* user to itself is ever stored.
C6_NoSelfFollow ==
    /\ \A u \in Users : EdgeRows(friendships, u, u) = 0
    /\ \A h \in Duo :
          req[h].op = "follow" /\ req[h].me = req[h].arg =>
             /\ req[h].pc = "done"
             /\ req[h].status = 400
             /\ req[h].error = "Cannot follow yourself"

C6_Witness ==
    \E h \in Duo : /\ req[h].op = "follow" /\ req[h].me = req[h].arg
                   /\ req[h].pc = "done" /\ req[h].status = 400
                   /\ friendships # EmptyBag

\* C7: a follow call served on its own answers 201 (created) exactly when no
\* edge of the pair was stored when it began; when the edge was stored it
\* answers 200, the pair still has one edge and no notification is created.
C7_CreatedIffNoEdgeBefore ==
    LET f == req[0] IN
    f.pc = "done" /\ f.op = "follow" /\ f.arg \in Users /\ f.arg # f.me =>
       /\ f.status \in {200, 201}
       /\ f.status = 201 <=> EdgeRows(f.pre.fr, f.me, f.arg) = 0
       /\ f.created <=> f.status = 201
       /\ EdgeRows(friendships, f.me, f.arg) = 1
       /\ f.status = 200 => notifs = f.pre.nt

C7_Witness ==
    LET f == req[0] IN
    /\ f.pc = "done" /\ f.op = "follow" /\ f.status = 200
    /\ EdgeRows(f.pre.fr, f.me, f.arg) = 1
    /\ FollowNotifRows(f.me, f.arg) = 0

StoresUnchanged(f) ==
    /\ friendships = f.pre.fr /\ notifs = f.pre.nt /\ posts = f.pre.ps
    /\ likes = f.pre.lk /\ comments = f.pre.cm /\ teamMembers = f.pre.tm

WithoutPair(fr, a, b) == DeleteAll(DeleteAll(fr, Edge(a, b, TRUE)), Edge(a, b, FALSE))

\* The success half of C8: a stored edge is deleted whatever its accepted
\* flag, and every other edge stays.
UnfollowDeletes(f) ==
    EdgeRows(f.pre.fr, f.me, f.arg) > 0 =>
       /\ f.status = 200
       /\ friendships = WithoutPair(f.pre.fr, f.me, f.arg)
       /\ notifs = f.pre.nt

\* C8 as stated: unfollow(A,B) fails with a not-found error and changes no
\* state whenever no (A,B) edge is stored; a stored edge is deleted.
C8_Original ==
    LET f == req[0] IN
    f.pc = "done" /\ f.op = "unfollow" =>
       /\ EdgeRows(f.pre.fr, f.me, f.arg) = 0 =>
             /\ f.error \in {"Not following this user", "User not found"}
             /\ f.status >= 400
             /\ StoresUnchanged(f)
       /\ UnfollowDeletes(f)

\* C8 (amended): unfollow(A,B) with A # B fails with a not-found error and
\* changes no state whenever no (A,B) edge is stored; unfollow(A,A) fails with
\* the self-follow error and changes no state; a stored edge is deleted
\* whatever its accepted flag, with every other edge unchanged.
C8_UnfollowNotFoundOrDeletes ==
    LET f == req[0] IN
    f.pc = "done" /\ f.op = "unfollow" =>
       /\ EdgeRows(f.pre.fr, f.me, f.arg) = 0 =>
             /\ f.status >= 400
             /\ StoresUnchanged(f)
             /\ f.error = IF f.arg \notin Users THEN "User not found"
                          ELSE IF f.arg = f.me THEN "Cannot follow yourself"
                          ELSE "Not following this user"
       /\ UnfollowDeletes(f)

\* An unfollow has deleted an unaccepted edge and left the reverse edge alone.
C8_Witness ==
    LET f == req[0] IN
    /\ f.pc = "done" /\ f.op = "unfollow" /\ f.status = 200
    /\ CopiesIn(Edge(f.me, f.arg, FALSE), f.pre.fr) = 1
    /\ EdgeRows(friendships, f.me, f.arg) = 0
    /\ EdgeRows(friendships, f.arg, f.me) = 1

\* The primary mutation of a finished request is stored.
PrimaryStored(f) ==
    CASE f.op = "follow"  -> EdgeRows(friendships, f.me, f.arg) >= 1
      [] f.op = "post"    -> PostExists(f.post) /\ posts[f.post].author = f.me
      [] f.op = "like"    -> CopiesIn(<<f.post, f.me>>, likes) >= 1
      [] f.op = "comment" -> \E i \in 1..Len(comments) :
                                comments[i].post = f.post /\ comments[i].author = f.me
      [] OTHER -> TRUE

\* C4: when the notification write of a follow, post creation, like or comment
\* fails, the primary mutation stays stored and the request answers success.
C4_NotifFailureNotSurfaced ==
    LET f == req[0] IN
    f.pc = "done" /\ f.nfail => PrimaryStored(f) /\ f.status \in {200, 201}

\* The follow part of C4, which the code keeps (lines 74-83).
C4_FollowSwallowsFailure ==
    LET f == req[0] IN
    f.pc = "done" /\ f.nfail /\ f.op = "follow" =>
        PrimaryStored(f) /\ f.status = 201

SumBag(B, S) ==
    LET RECURSIVE Sum(_)
        Sum(T) == IF T = {} THEN 0
                  ELSE LET x == CHOOSE y \in T : TRUE IN CopiesIn(x, B) + Sum(T \ {x})
    IN Sum(S)

\* C9: a post creation that runs to its 201 has added exactly one post
\* notification for each user holding an accepted edge to the author, and no
\* other notification.
C9_PostNotifiesAcceptedFollowers ==
    LET f == req[0] IN
    f.pc = "done" /\ f.op = "post" /\ f.status = 201 =>
        /\ notifs = f.pre.nt (+)
              SetToBag({Notif(u, "post", f.me) :
                          u \in {v \in Users : EdgeAccepted(f.pre.fr, v, f.me)}})
        /\ PostExists(f.post) /\ posts[f.post].author = f.me

\* The author has an accepted follower, an unaccepted one, and follows someone.
C9_Witness ==
    LET f == req[0] IN
    /\ f.pc = "done" /\ f.op = "post" /\ f.status = 201 /\ f.me = "A"
    /\ EdgeAccepted(friendships, "B", "A")
    /\ CopiesIn(Edge("C", "A", FALSE), friendships) = 1
    /\ EdgeAccepted(friendships, "A", "C")
    /\ notifs = SetToBag({Notif("B", "post", "A")})

LikesOfAuthorBy(a, u) ==
    SumBag(likes, {k \in (1..Len(posts)) \X {u} : posts[k[1]].author = a})

\* C10: concurrent like calls leave exactly one stored like per (post, user)
\* and at most one like notification per stored like.
C10_OneLikeAtMostOneNotif ==
    /\ \A pid \in PostIds, u \in Users : CopiesIn(<<pid, u>>, likes) <= 1
    /\ \A h \in Handlers :
          req[h].pc = "done" /\ req[h].op = "like" /\ req[h].status # 404 =>
              CopiesIn(<<req[h].post, req[h].me>>, likes) = 1
    /\ \A a \in Users, u \in Users :
          CopiesIn(Notif(a, "like", u), notifs) <= LikesOfAuthorBy(a, u)

\* Two like handlers of the same user and post have both answered; one lost
\* the race for the INSERT after both had read that no like was stored.
C10_Witness ==
    /\ req[1].pc = "done" /\ req[2].pc = "done"
    /\ req[1].op = "like" /\ req[2].op = "like"
    /\ req[1].me = req[2].me /\ req[1].post = req[2].post
    /\ req[1].status = 201 /\ req[2].status = 200 /\ req[2].conflict
    /\ posts[req[1].post].author # req[1].me
    /\ CopiesIn(Notif(posts[req[1].post].author, "like", req[1].me), notifs) = 1

\* The access rule of the chat gate: global and game rooms are open, a team
\* room needs membership of its team (a team room with no team set is read
\* as open), a private room needs membership of the room or being its creator.
Eligible(viewer, r) ==
    CASE r.room_type = "team"    -> r.team => viewer \in teamMembers
      [] r.room_type = "private" -> viewer \in r.members \/ viewer = r.created_by
      [] OTHER -> TRUE

\* C5: the message listing returns messages only to users eligible for the
\* room; a non-eligible user gets an empty list.
C5_ListingOnlyToEligible ==
    listing.msgs # <<>> =>
        \E r \in rooms : /\ r.name = listing.name /\ r.is_active
                         /\ Eligible(listing.viewer, r)


JoinDone(f) == f.pc = "done" /\ f.op = "join"

\* A join that found the team at capacity: capacity error, members unchanged.
JoinAtCapFails(f) ==
    Cardinality(f.pre.tm) = teamMax =>
        /\ f.status = 400 /\ f.error = "Team is full"
        /\ teamMembers = f.pre.tm

\* C13 as stated: a join on a team with max_members members fails with the
\* capacity error and leaves the members unchanged; a join on a team with
\* max_members - 1 members succeeds and the team has max_members members.
C13_Original ==
    LET f == req[0] IN
    JoinDone(f) =>
       /\ JoinAtCapFails(f)
       /\ Cardinality(f.pre.tm) = teamMax - 1 =>
             f.status = 200 /\ Cardinality(teamMembers) = teamMax

\* C13 (amended): a join on a team with max_members members fails with the
\* capacity error and leaves the members unchanged; a join on a team with
\* max_members - 1 members succeeds, and the team has max_members members
\* afterwards when the user was not a member, max_members - 1 when it was.
C13_JoinAtAndBelowCap ==
    LET f == req[0] IN
    JoinDone(f) =>
       /\ JoinAtCapFails(f)
       /\ Cardinality(f.pre.tm) = teamMax - 1 =>
             /\ f.status = 200
             /\ teamMembers = f.pre.tm \cup {f.me}
             /\ Cardinality(teamMembers) = IF f.me \in f.pre.tm THEN teamMax - 1
                                           ELSE teamMax

\* A join has filled the last free place of a team of two.
C13_Witness ==
    LET f == req[0] IN
    /\ JoinDone(f) /\ f.status = 200 /\ teamMax = 2
    /\ Cardinality(f.pre.tm) = 1 /\ f.me \notin f.pre.tm
    /\ Cardinality(teamMembers) = 2

\* C14 as stated: a join by a member succeeds and leaves the member set as it
\* was, at any member count up to and including max_members.
C14_Original ==
    LET f == req[0] IN
    JoinDone(f) /\ f.me \in f.pre.tm =>
        f.status = 200 /\ teamMembers = f.pre.tm

\* C14 (amended): a join by a member leaves the member set as it was at any
\* member count; it succeeds below max_members and fails with the capacity
\* error at max_members.
C14_RejoinKeepsMembers ==
    LET f == req[0] IN
    JoinDone(f) /\ f.me \in f.pre.tm =>
        /\ teamMembers = f.pre.tm
        /\ f.status = IF Cardinality(f.pre.tm) < teamMax THEN 200 ELSE 400
        /\ f.status = 400 => f.error = "Team is full"

\* A member has joined again below the cap.
C14_Witness ==
    LET f == req[0] IN
    /\ JoinDone(f) /\ f.me \in f.pre.tm /\ f.status = 200
    /\ Cardinality(f.pre.tm) < teamMax /\ teamMembers = f.pre.tm

\* C15: a leave always succeeds, member or not; afterwards the user is no
\* member and every other member is as before; a leave by a member of a full
\* team frees a place, and a join that finds a free place succeeds and adds
\* its user.
C15_LeaveFreesSlot ==
    LET f == req[0] IN
    /\ f.pc = "done" /\ f.op = "leave" =>
          /\ f.status = 200
          /\ teamMembers = f.pre.tm \ {f.me}
          /\ f.me \in f.pre.tm /\ TeamIsFull(Cardinality(f.pre.tm), teamMax) =>
                ~TeamIsFull(Cardinality(teamMembers), teamMax)
    /\ JoinDone(f) /\ ~TeamIsFull(Cardinality(f.pre.tm), teamMax) =>
          f.status = 200 /\ teamMembers = f.pre.tm \cup {f.me}

\* A member has left a full team of two, which has one free place now.
C15_Witness ==
    LET f == req[0] IN
    /\ f.pc = "done" /\ f.op = "leave" /\ f.status = 200
    /\ teamMax = 2 /\ Cardinality(f.pre.tm) = 2 /\ f.me \in f.pre.tm
    /\ Cardinality(teamMembers) = 1


\* C11: a like that newly stores the like, by a user other than the post's
\* author, adds exactly one like notification to the author with the liker as
\* related user; a like that finds the like stored adds no notification.
C11_NewLikeNotifiesAuthorOnce ==
    LET f == req[0] IN
    f.pc = "done" /\ f.op = "like" /\ PostExists(f.post) =>
       LET a == posts[f.post].author
           had == CopiesIn(<<f.post, f.me>>, f.pre.lk) > 0 IN
       /\ ~had /\ a # f.me =>
             /\ f.status = 201 /\ f.created
             /\ likes = f.pre.lk (+) SetToBag({<<f.post, f.me>>})
             /\ notifs = f.pre.nt (+) SetToBag({Notif(a, "like", f.me)})
       /\ had =>
             /\ f.status = 200 /\ ~f.created
             /\ likes = f.pre.lk
             /\ notifs = f.pre.nt

\* A like stored again after an unlike has notified the author a second time.
C11_Witness ==
    LET f == req[0] IN
    /\ f.pc = "done" /\ f.op = "like" /\ f.status = 201
    /\ posts[f.post].author # f.me
    /\ CopiesIn(Notif(posts[f.post].author, "like", f.me), f.pre.nt) = 1
    /\ CopiesIn(Notif(posts[f.post].author, "like", f.me), notifs) = 2

\* C16: an unlike succeeds whether or not the like is stored; afterwards the
\* like of that user on that post is not stored, and every other like, every
\* comment, notification, post and edge is as before.
C16_UnlikeRemovesOnlyThatLike ==
    LET f == req[0] IN
    f.pc = "done" /\ f.op = "unlike" /\ PostExists(f.post) =>
       /\ f.status = 200
       /\ CopiesIn(<<f.post, f.me>>, likes) = 0
       /\ \A k \in (DOMAIN likes \cup DOMAIN f.pre.lk) \ {<<f.post, f.me>>} :
             CopiesIn(k, likes) = CopiesIn(k, f.pre.lk)
       /\ notifs = f.pre.nt /\ comments = f.pre.cm
       /\ posts = f.pre.ps /\ friendships = f.pre.fr

\* An unlike has removed a like whose notification, the other user's like of
\* the same post and the post's comment stay stored.
C16_Witness ==
    LET f == req[0] IN
    /\ f.pc = "done" /\ f.op = "unlike" /\ f.status = 200
    /\ CopiesIn(<<f.post, f.me>>, f.pre.lk) = 1
    /\ \E u \in Users \ {f.me} : CopiesIn(<<f.post, u>>, likes) = 1
    /\ CopiesIn(Notif(posts[f.post].author, "like", f.me), notifs) = 1
    /\ Len(comments) = 1 /\ comments = f.pre.cm

\* The content is missing, empty or white space only.
Blank(data) == \A c \in data : \A i \in 1..Len(c) : c[i] \in {" ", "\t", "\n"}

\* C17: a comment whose content is missing, empty or only white space fails
\* with the validation error, stores no comment and creates no notification.
C17_BlankCommentRejected ==
    LET f == req[0] IN
    f.pc = "done" /\ f.op = "comment" /\ PostExists(f.post) /\ Blank(f.data) =>
       /\ f.status = 400 /\ f.error = "Comment content is required"
       /\ StoresUnchanged(f)

\* A comment of two spaces on another user's post has been rejected.
C17_Witness ==
    LET f == req[0] IN
    /\ f.pc = "done" /\ f.op = "comment" /\ f.data = {<<" ", " ">>}
    /\ PostExists(f.post) /\ posts[f.post].author # f.me
    /\ f.status = 400

CommentsOn(a, u) ==
    Cardinality({i \in 1..Len(comments) :
                    comments[i].author = u /\ posts[comments[i].post].author = a})

\* C18: a comment with content on a stored post succeeds; by a user other
\* than the post's author it stores one comment and adds exactly one comment
\* notification to the author with the commenter as related user, so that k
\* such comments have added k notifications.
C18_CommentNotifiesAuthorOnce ==
    LET f == req[0] IN
    /\ f.pc = "done" /\ f.op = "comment" /\ PostExists(f.post) /\ ~Blank(f.data) =>
          /\ f.status = 201
          /\ Len(comments) = Len(f.pre.cm) + 1
          /\ SubSeq(comments, 1, Len(f.pre.cm)) = f.pre.cm
          /\ comments[Len(comments)].post = f.post
          /\ comments[Len(comments)].author = f.me
          /\ posts[f.post].author # f.me =>
                notifs = f.pre.nt (+) SetToBag({Notif(posts[f.post].author, "comment", f.me)})
    /\ Quiet(Single) =>
          \A a \in Users : \A u \in Users \ {a} :
              CopiesIn(Notif(a, "comment", u), notifs) = CommentsOn(a, u)

\* Two comments by one user on another user's post have added two
\* notifications.
C18_Witness ==
    /\ req[0].pc = "done" /\ req[0].op = "comment" /\ req[0].status = 201
    /\ \E a \in Users : \E u \in Users \ {a} :
          CommentsOn(a, u) = 2 /\ CopiesIn(Notif(a, "comment", u), notifs) = 2


\* C12: no stored notification has its recipient as related user; a like of
\* or a comment on one's own post succeeds and adds no notification.
C12_NoSelfNotification ==
    /\ \A k \in DOMAIN notifs : k.user # k.related
    /\ LET f == req[0] IN
          /\ f.pc = "done" /\ f.op \in {"like", "comment"} /\ f.status = 201
          /\ posts[f.post].author = f.me
          => notifs = f.pre.nt

\* Users have liked and commented on their own posts, and the only
\* notifications stored are those of their followers and of other users'
\* likes.
C12_Witness ==
    LET f == req[0] IN
    /\ f.pc = "done" /\ f.op = "comment" /\ f.status = 201
    /\ posts[f.post].author = f.me
    /\ CopiesIn(<<f.post, f.me>>, likes) = 1
    /\ \E u \in Users : CopiesIn(Notif(u, "post", f.me), notifs) = 1
    /\ \E u \in Users : CopiesIn(Notif(f.me, "like", u), notifs) = 1


FeedDone(f) == f.pc = "done" /\ f.op = "feed"

Returned(f) == {f.out[k] : k \in 1..Len(f.out)}

\* The posts that qualify for the viewer's feed in the mode asked for.
Qualifying(f) ==
    {i \in DOMAIN posts :
        CASE f.mode = "my"        -> posts[i].author = f.me
          [] f.mode = "following" ->
                CopiesIn(Edge(f.me, posts[i].author, TRUE), friendships) > 0
          [] OTHER -> TRUE}

\* C19: the feed returns, for mode my, only posts of the viewer; for mode
\* following, only posts whose author the viewer follows with an accepted
\* edge when the query runs; for any other mode, posts of any author; and
\* every qualifying post when they fit in one page.
C19_FeedFiltersByMode ==
    LET f == req[0] IN
    FeedDone(f) =>
       /\ f.status = 200
       /\ Returned(f) \subseteq Qualifying(f)
       /\ Cardinality(Qualifying(f)) <= FeedPageSize => Returned(f) = Qualifying(f)

\* A following feed holds the posts of the followed user and leaves out the
\* viewer's own post.
C19_Witness ==
    LET f == req[0] IN
    /\ FeedDone(f) /\ f.mode = "following" /\ Len(f.out) = 1
    /\ \E i \in DOMAIN posts : posts[i].author = f.me
    /\ CopiesIn(Edge(posts[f.out[1]].author, f.me, FALSE), friendships) = 1

\* C20: in every mode the feed returns qualifying posts newest first (in
\* non-increasing creation time), each once, at most 100 of them, and all of
\* them or 100; no post left out is newer than a post returned.
C20_FeedNewestFirstCapped ==
    LET f == req[0] IN
    FeedDone(f) =>
       /\ \A i, j \in 1..Len(f.out) :
             i < j => /\ posts[f.out[i]].created_at >= posts[f.out[j]].created_at
                      /\ f.out[i] # f.out[j]
       /\ Len(f.out) <= 100
       /\ Len(f.out) = IF Cardinality(Qualifying(f)) > 100 THEN 100
                       ELSE Cardinality(Qualifying(f))
       /\ \A i \in Qualifying(f) \ Returned(f) : \A j \in Returned(f) :
             posts[i].created_at <= posts[j].created_at

\* More than 100 posts qualify, two of them of one creation time at the cut:
\* 100 are returned, and one of the two is left out.
C20_Witness ==
    LET f == req[0] IN
    /\ FeedDone(f) /\ f.mode = "following"
    /\ Cardinality(Qualifying(f)) > 100 /\ Len(f.out) = 100
    /\ \E i \in Qualifying(f) \ Returned(f) :
          posts[i].created_at = posts[f.out[100]].created_at


\* C21: the connection listing of user u returns as followers exactly the
\* users with an accepted edge to u, as following exactly the users u has an
\* accepted edge to, counts equal to the sizes of the two lists, is_following
\* true exactly when the viewer is another user with an accepted edge to u,
\* and leaves every table as it was.
C21_ConnectionsAccepted ==
    LET f == req[0] IN
    f.pc = "done" /\ f.op = "connections" /\ f.arg \in Users =>
       /\ f.status = 200
       /\ f.out.followers =
             {v \in Users : CopiesIn(Edge(v, f.arg, TRUE), friendships) > 0}
       /\ f.out.following =
             {v \in Users : CopiesIn(Edge(f.arg, v, TRUE), friendships) > 0}
       /\ f.out.followers_count = Cardinality(f.out.followers)
       /\ f.out.following_count = Cardinality(f.out.following)
       /\ f.out.is_following <=>
             (f.me # f.arg /\ CopiesIn(Edge(f.me, f.arg, TRUE), friendships) > 0)
       /\ StoresUnchanged(f)

\* The listed user has an accepted and an unaccepted follower and follows
\* one user with an accepted edge and one with an unaccepted edge; the viewer
\* is the accepted follower.
C21_Witness ==
    LET f == req[0] IN
    /\ f.pc = "done" /\ f.op = "connections" /\ f.status = 200
    /\ f.out.is_following /\ f.out.followers_count = 1 /\ f.out.following_count = 1
    /\ \E v \in Users : CopiesIn(Edge(v, f.arg, FALSE), friendships) = 1
    /\ \E v \in Users : CopiesIn(Edge(f.arg, v, FALSE), friendships) = 1


\* The visibility rule of the room listing: a team room for the members of
\* its team, a private room for its members and its creator, a global or a
\* game room for every user.
Visible(viewer, r) ==
    CASE r.room_type = "team"    -> r.team /\ viewer \in teamMembers
      [] r.room_type = "private" -> viewer \in r.members \/ viewer = r.created_by
      [] OTHER -> TRUE

\* C22: the room listing holds an active room exactly when the room is
\* visible to the user by its type: team membership for a team room, room
\* membership or being the creator for a private room, and always for a
\* global or a game room.
C22_RoomListedIffVisible ==
    LET f == req[0] IN
    f.pc = "done" /\ f.op = "rooms" =>
        \A r \in rooms : r.is_active => (r.name \in f.out <=> Visible(f.me, r))


ListedIds == {listing.msgs[k].id : k \in 1..Len(listing.msgs)}

\* C23: a message listing for a name that matches no active room (unknown
\* name, inactive room, no name) is the empty list; for a room the viewer is
\* eligible for it is exactly that room's messages, each once, in
\* non-decreasing creation-time order.
C23_NoRoomEmptyElseOrdered ==
    LET active == {r \in rooms : r.name = listing.name /\ r.is_active} IN
    listing.viewer # NoUser =>
       /\ active = {} => listing.msgs = <<>>
       /\ \A r \in active : Eligible(listing.viewer, r) =>
             /\ ListedIds = {m.id : m \in {x \in messages : x.room = r.name}}
             /\ Len(listing.msgs) = Cardinality(ListedIds)
             /\ \A k \in 1..Len(listing.msgs) : listing.msgs[k] \in messages
             /\ \A i, j \in 1..Len(listing.msgs) :
                   i < j => listing.msgs[i].created_at <= listing.msgs[j].created_at

\* The messages of an inactive room were asked for: the list is empty.
C23_Witness ==
    /\ listing.viewer # NoUser /\ listing.name = "r1" /\ listing.msgs = <<>>
    /\ \E r \in rooms : r.name = "r1" /\ ~r.is_active /\ r.room_type = "global"
    /\ \E m \in messages : m.room = "r1"

---------------------------------------------------------------------------
\* Recommendations: one requester profile, short tables of every make-up and
\* long tables (two rows, then two more in turns) that exceed the limit of
\* the answer.
MaxLftPosts == 13     \* rows of the long LFTPost tables

Ranks     == {<<>>, <<"S">>, <<"G", "o">>}
GamerTags == {<<>>, <<"g", "o">>}
GameFilters == {<<>>, <<"C">>, <<"X">>}

LftRow(author, active, rank, game, style) ==
    [id |-> 0, author |-> author, is_active |-> active, rank |-> rank,
     game |-> game, play_style |-> style]

LftKinds ==
    {LftRow("B", TRUE,  <<"s", "+">>, <<"x">>,      <<>>),
     LftRow("C", TRUE,  <<"S">>,      <<"x">>,      <<>>),
     LftRow("C", TRUE,  <<>>,         <<"x">>,      <<>>),
     LftRow("B", TRUE,  <<"g", "o">>, <<"c", "s">>, <<>>),
     LftRow("C", FALSE, <<"g", "o">>, <<"c", "s">>, <<>>),
     LftRow("A", TRUE,  <<"G", "o">>, <<"g", "o">>, <<"a", "b">>)}

\* Rows get their ids in table order.
Numbered(s) == [i \in 1..Len(s) |-> [s[i] EXCEPT !.id = i]]

LftTables ==
    {Numbered(s) : s \in {<<>>} \cup [1..1 -> LftKinds] \cup [1..2 -> LftKinds]}
    \cup {Numbered([i \in 1..MaxLftPosts |-> IF i <= 2 THEN t[i] ELSE t[3 + (i % 2)]]) :
             t \in [1..4 -> LftKinds]}

InitRec ==
    /\ InitSocialEmpty
    /\ InitTeamFixed
    /\ InitChatEmpty
    /\ lftPosts \in LftTables
    /\ \E rank \in Ranks, tag \in GamerTags :
          profiles = [u \in Users |-> IF u \in Users2
                                      THEN [rank |-> rank, gamer_tag |-> tag]
                                      ELSE NoProfile]
    /\ insights = {}
    /\ users = {}
    /\ openaiKey = FALSE
    /\ req = [h \in Slots |-> Idle]

NextRec ==
    \E h \in Single :
        \/ \E me \in Users2, gf \in GameFilters : Recommendations(h, me, gf)
        \/ Return(h)

SpecRec == InitRec /\ [][NextRec]_vars

RecDone == req[0].pc = "done" /\ req[0].op = "recommendations"

\* The rows of the table the request of slot 0 may recommend.
Qualifies(i) ==
    /\ lftPosts[i].is_active
    /\ lftPosts[i].author # req[0].me
    /\ req[0].game # <<>> => Icontains(lftPosts[i].game, req[0].game)

ScoreOf(i) ==
    Recommendation(profiles[req[0].me], lftPosts[i], req[0].game).match_score

RankedAndCut(out) ==
    /\ Len(out) <= RecommendationLimit
    /\ \A j, k \in 1..Len(out) : j < k => out[j].match_score >= out[k].match_score

\* C24: recommendations answers with at most 10 entries in non-increasing
\* match-score order, entries of equal score in the order of the input; it
\* holds no inactive post and no post of the requester; every entry scores
\* at least as high as every qualifying post left out (so the answer is the
\* 10 best, or all qualifying posts when they are fewer).
C24_TopTenStableRanked ==
    RecDone =>
        LET out == req[0].out
            ids == {out[k].id : k \in 1..Len(out)}
            qualifying == {i \in 1..Len(lftPosts) : Qualifies(i)}
        IN /\ RankedAndCut(out)
           /\ \A j, k \in 1..Len(out) :
                 j < k /\ out[j].match_score = out[k].match_score
                    => out[j].id < out[k].id
           /\ \A k \in 1..Len(out) :
                 /\ out[k].id \in 1..Len(lftPosts)
                 /\ lftPosts[out[k].id].is_active
                 /\ lftPosts[out[k].id].author # req[0].me
                 /\ out[k].match_score = ScoreOf(out[k].id)
           /\ ids \subseteq qualifying
           /\ Cardinality(ids) = Len(out)
           /\ Len(out) = IF Cardinality(qualifying) < RecommendationLimit
                         THEN Cardinality(qualifying) ELSE RecommendationLimit
           /\ \A i \in qualifying \ ids :
                 \A k \in 1..Len(out) : out[k].match_score >= ScoreOf(i)

\* A full answer with two entries of equal score and two of different
\* scores, over a table that also holds an inactive post, a post of the
\* requester and a qualifying post that was left out.
C24_Witness ==
    /\ RecDone
    /\ Len(req[0].out) = RecommendationLimit
    /\ \E j, k \in 1..Len(req[0].out) :
          j < k /\ req[0].out[j].match_score = req[0].out[k].match_score
    /\ \E j, k \in 1..Len(req[0].out) :
          req[0].out[j].match_score > req[0].out[k].match_score
    /\ \E i \in 1..Len(lftPosts) : ~lftPosts[i].is_active
    /\ \E i \in 1..Len(lftPosts) : lftPosts[i].author = req[0].me
    /\ \E i \in 1..Len(lftPosts) :
          Qualifies(i) /\ \A k \in 1..Len(req[0].out) : req[0].out[k].id # i

\* The qualifying rows whose features and the requester's hold no token: the
\* vectorizer raises on them.
Unvectorizable ==
    {i \in 1..Len(lftPosts) :
        /\ Qualifies(i)
        /\ Tokens(UserFeatures(profiles[req[0].me])) = <<>>
        /\ Tokens(PostFeatures(lftPosts[i])) = <<>>}

\* C25: when the vector similarity of a candidate cannot be computed the
\* request still answers with status 200; the candidate is scored with the
\* fallback score, 0.1 plus 0.3 when both ranks are set and one is a part of
\* the other, and is in the answer with that score unless 10 entries of at
\* least that score precede it; the answer is ranked and cut to 10.
C25_FallbackScoreRanked ==
    RecDone =>
        LET out == req[0].out IN
        /\ req[0].status = 200
        /\ RankedAndCut(out)
        /\ \A i \in Unvectorizable :
              LET ur == LowerStr(profiles[req[0].me].rank)
                  pr == LowerStr(lftPosts[i].rank)
                  fb == IF ur # <<>> /\ pr # <<>>
                           /\ (Substring(ur, pr) \/ Substring(pr, ur))
                        THEN FallbackBase + FallbackBonus ELSE FallbackBase
              IN \/ \E k \in 1..Len(out) :
                       /\ out[k].id = i
                       /\ out[k].match_score = fb
                       /\ out[k].similarity = fb
                 \/ /\ Len(out) = RecommendationLimit
                    /\ \A k \in 1..Len(out) : out[k].match_score >= fb

\* A full answer that holds a candidate scored by the fallback with the rank
\* bonus (the ranks 'S' and 's+') and one scored by the fallback without it.
C25_Witness ==
    /\ RecDone
    /\ Len(req[0].out) = RecommendationLimit
    /\ \E i, j \in Unvectorizable :
          /\ lftPosts[i].rank = <<"s", "+">>
          /\ lftPosts[j].rank = <<>>
          /\ \E k, l \in 1..Len(req[0].out) :
                /\ req[0].out[k].id = i
                /\ req[0].out[k].match_score = FallbackBase + FallbackBonus
                /\ req[0].out[l].id = j
                /\ req[0].out[l].match_score = FallbackBase

---------------------------------------------------------------------------
\* Match insights: two workers run the task concurrently for one user and
\* one tournament, and for ids that match no row; with and without an API
\* key.
InitInsight ==
    /\ InitSocialEmpty
    /\ InitTeamFixed
    /\ InitChatEmpty
    /\ InitLftEmpty
    /\ insights = {}
    /\ users = {}
    /\ openaiKey \in BOOLEAN
    /\ req = [h \in Slots |-> Idle]

NextInsight ==
    \E h \in Duo :
        \/ \E u \in {"A", NoUser}, t \in Tournaments \cup {NoTournament} :
              InsightBegin(h, u, t)
        \/ InsightGet(h)
        \/ InsightCreate(h)
        \/ InsightCall(h)
        \/ InsightSave(h)
        \/ Return(h)

SpecInsight == InitInsight /\ [][NextInsight]_vars

\* A worker that has begun a run executes its statements to the end: every
\* statement of the task returns or raises.
SpecInsightFair ==
    SpecInsight /\ \A h \in Duo : WF_vars(InsightStep(h))

InsightRunning(h) == req[h].op = "insight" /\ req[h].pc \notin {"idle", "done"}

\* The run of slot h has returned holding an insight instance.
InsightReturned(h) ==
    req[h].op = "insight" /\ req[h].pc = "done" /\ req[h].cnt > 0

---------------------------------------------------------------------------
\* User saves: two saves at a time over tables of users with generated
\* vin_ids, without one, and with ids of another format.
VinTables ==
    {{},
     {UserRow("x", FormatVin(1))},
     {UserRow("x", FormatVin(2)), UserRow("A", NoVin)},
     {UserRow("x", FormatVin(9)), UserRow("y", NoVin)},
     {UserRow("x", <<"o", "l", "d">>), UserRow("y", <<"V", "I", "N", "-", "x">>),
      UserRow("z", FormatVin(3))}}

InitSave ==
    /\ InitSocialEmpty
    /\ InitTeamFixed
    /\ InitChatEmpty
    /\ InitLftEmpty
    /\ insights = {}
    /\ users \in VinTables
    /\ openaiKey = FALSE
    /\ req = [h \in Slots |-> Idle]

NextSave ==
    \E h \in Duo :
        \/ \E name \in Users : SaveBegin(h, name)
        \/ SaveWrite(h)
        \/ Return(h)

SpecSave == InitSave /\ [][NextSave]_vars

\* C28: a save of a user without a vin_id stores the user with the vin_id
\* whose number is one more than the largest number the save read among the
\* stored vin_ids, also when two saves read before either writes; no two
\* stored users share a vin_id.
C28_SavedWithNextDistinctVin ==
    /\ \A h \in Duo :
          req[h].op = "save" /\ req[h].pc = "done" =>
             \E r \in users : /\ r.username = req[h].me
                              /\ r.vin_id # NoVin
                              /\ VinNumber(r.vin_id) = req[h].cnt + 1
    /\ \A r1, r2 \in users :
          r1 # r2 /\ r1.vin_id # NoVin => r1.vin_id # r2.vin_id

===========================================================================
